---------------------------- MODULE Spec2Model ----------------------------
(***************************************************************************)
(* The retrieval-augmented answer pipeline of the student assistant:       *)
(* RAGService (backend/app/services/rag_service.py).  One RAGService       *)
(* instance owns a Conversation Memory (conversation_history) and serves   *)
(* turns through ask(); the embedding model, the vector index and the      *)
(* language model are external capabilities whose answers and failures are *)
(* chosen nondeterministically, and every call made to them is logged.     *)
(* Texts are strings; prompts are records of the values interpolated into  *)
(* the prompt templates.  The phrase and keyword lists are those of the    *)
(* source; the texts a turn carries (questions, completions, passages,     *)
(* canned replies, the error text) are written without accents.            *)
(***************************************************************************)
EXTENDS Integers, Sequences, FiniteSets, TLC

(***************************************************************************)
(* Python's str operations used by the service.                            *)
(***************************************************************************)
UpperCase == "ABCDEFGHIJKLMNOPQRSTUVWXYZÀÇÈÉÊ"
LowerCase == "abcdefghijklmnopqrstuvwxyzàçèéê"

CharLower(c) ==
    IF \E i \in 1..Len(UpperCase) : SubSeq(UpperCase, i, i) = c
    THEN LET i == CHOOSE j \in 1..Len(UpperCase) : SubSeq(UpperCase, j, j) = c
         IN  SubSeq(LowerCase, i, i)
    ELSE c

RECURSIVE Lower(_)
\* str.lower()
Lower(s) ==
    IF s = "" THEN ""
    ELSE CharLower(SubSeq(s, 1, 1)) \o Lower(SubSeq(s, 2, Len(s)))

IsSpace(c) == c \in {" ", "\t", "\n"}

RECURSIVE LStrip(_)
LStrip(s) ==
    IF s # "" /\ IsSpace(SubSeq(s, 1, 1)) THEN LStrip(SubSeq(s, 2, Len(s))) ELSE s

RECURSIVE RStrip(_)
RStrip(s) ==
    IF s # "" /\ IsSpace(SubSeq(s, Len(s), Len(s)))
    THEN RStrip(SubSeq(s, 1, Len(s) - 1))
    ELSE s

\* str.strip()
Strip(s) == RStrip(LStrip(s))

RECURSIVE SplitFrom(_, _, _)
SplitFrom(s, i, cur) ==
    IF i > Len(s)
    THEN IF cur = "" THEN <<>> ELSE <<cur>>
    ELSE LET c == SubSeq(s, i, i)
         IN  IF IsSpace(c)
             THEN (IF cur = "" THEN <<>> ELSE <<cur>>) \o SplitFrom(s, i + 1, "")
             ELSE SplitFrom(s, i + 1, cur \o c)

\* str.split(): the whitespace-separated tokens
Split(s) == SplitFrom(s, 1, "")

\* sub in s
Contains(s, sub) ==
    \E i \in 1..(Len(s) - Len(sub) + 1) : SubSeq(s, i, i + Len(sub) - 1) = sub

\* s[:n]
Prefix(s, n) == SubSeq(s, 1, IF Len(s) < n THEN Len(s) ELSE n)

\* Python's None
None == "<None>"


(***************************************************************************)
(* Bounds of the model and the inputs turns are drawn from.                *)
(***************************************************************************)
\* number of ask() calls made on the service
MaxTurns == 3

Questions ==
    { "Merci beaucoup !",
      "Combien dure-t-il ?",
      "Et combien de temps dure-t-il ?",
      "Quand commence le semestre d'automne ?",
      "Frais inscription ?" }

NResults == {1, 2}

(***************************************************************************)
(* The external capabilities.  An outcome of a language-model call is its  *)
(* raw completion text, or the exception it raised.                        *)
(***************************************************************************)
Ok(content)    == [ok |-> TRUE,  content |-> content]
Failed(reason) == [ok |-> FALSE, content |-> reason]

\* what llm_client.chat_completion may do with a reformulation prompt
ReformulationOutcomes(query) ==
    { Ok("  Combien de temps dure le semestre d'automne ?\n"),
      Ok(query),
      Failed("429 Too Many Requests") }

\* what llm_client.chat_completion may do with a generation prompt
GenerationOutcomes ==
    { Ok(" Le 18 septembre.\n"),
      Failed("503 Service Unavailable") }

\* the passages held by the collection
Corpus ==
    << [document |-> "Le semestre d'automne commence le 18 septembre.",
        metadata |-> [source |-> "calendrier_2024.pdf", category |-> "emploi_temps"]],
       [document |-> "Trois absences sans justificatif valent une sanction.",
        metadata |-> [source |-> "reglement_interieur.pdf", category |-> "reglements"]],
       [document |-> "L'inscription se fait en ligne.",
        metadata |-> [source |-> "guide_inscription.pdf", category |-> "procedures"]],
       [document |-> "Les cours du semestre de printemps commencent le 12 fevrier.",
        metadata |-> [source |-> "calendrier_2025.pdf", category |-> "emploi_temps"]] >>

\* the orders in which the index may rank the corpus for a query embedding
Rankings == { <<1, 2, 3>>, <<3, 1, 2>> }

\* the distances of the ranked passages, nearest first (in tenths)
RankDistances == <<0, 4, 12>>

\* collection.query(n_results, where) for one ranking and the distances of
\* its ranks: the n_results nearest passages that satisfy the filter, with
\* their distances
QueryResultAt(ranking, distances, n, where) ==
    LET ranked  == [i \in 1..Len(ranking) |->
                       [document |-> Corpus[ranking[i]].document,
                        metadata |-> Corpus[ranking[i]].metadata,
                        distance |-> distances[i]]]
        matches == SelectSeq(ranked,
                       LAMBDA r : where = None \/ r.metadata.category = where)
    IN  SubSeq(matches, 1, IF Len(matches) < n THEN Len(matches) ELSE n)

QueryResult(ranking, n, where) ==
    QueryResultAt(ranking, RankDistances, n, where)

\* every answer the index may give to one query
IndexResponses(n, where) == { QueryResult(ranking, n, where) : ranking \in Rankings }

(***************************************************************************)
(* RAGService: Conversation Memory.                                        *)
(***************************************************************************)
max_history == 5

\* add_to_history with pop() for pop(0): the newest exchange is the one dropped
AddToHistoryDropsNewest(history, question, answer) ==
    LET appended == Append(history, [question |-> question, answer |-> answer])
    IN  IF Len(appended) > max_history
        THEN SubSeq(appended, 1, Len(appended) - 1)
        ELSE appended

\* add_to_history: the memory after the call
AddToHistory(history, question, answer) ==
    LET appended == Append(history, [question |-> question, answer |-> answer])
    IN  IF Len(appended) > max_history THEN Tail(appended) ELSE appended

(***************************************************************************)
(* RAGService: Greeting Classifier and canned replies.                     *)
(***************************************************************************)
simple_phrases ==
    { "bonjour", "salut", "hello", "hi", "hey", "coucou", "bonsoir",
      "merci", "thanks", "thank you", "d'accord", "ok", "okay",
      "au revoir", "bye", "à bientôt", "à plus",
      "oui", "non", "bien", "super", "cool", "parfait", "génial" }

\* is_greeting with < 3 for <= 3
IsGreetingUnderThree(question) ==
    LET question_lower == Strip(Lower(question))
    IN  IF Len(Split(question_lower)) < 3
        THEN \E phrase \in simple_phrases : Contains(question_lower, phrase)
        ELSE FALSE

IsGreeting(question) ==
    LET question_lower == Strip(Lower(question))
    IN  IF Len(Split(question_lower)) <= 3
        THEN \E phrase \in simple_phrases : Contains(question_lower, phrase)
        ELSE FALSE

\* handle_greeting: the replies random.choice may return (emoji and accents
\* left out of the literals)
HandleGreeting(question) ==
    LET question_lower == Strip(Lower(question))
        has(words) == \E word \in words : Contains(question_lower, word)
    IN  IF has({"merci", "thanks", "thank you"})
        THEN { "De rien ! N'hesitez pas si vous avez d'autres questions.",
               "Avec plaisir ! Je suis la pour vous aider.",
               "Heureux de vous aider ! Autre chose ?" }
        ELSE IF has({"au revoir", "bye", "à bientôt", "à plus"})
        THEN { "A bientot ! Bonne journee !",
               "Au revoir ! N'hesitez pas a revenir si besoin.",
               "A plus tard ! Bonne continuation dans vos etudes !" }
        ELSE IF has({"ok", "okay", "d'accord", "bien", "parfait"})
        THEN { "Super ! Autre question ?",
               "Parfait ! Comment puis-je vous aider d'autre ?",
               "D'accord ! N'hesitez pas pour d'autres questions." }
        ELSE { "Bonjour ! Je suis l'assistant virtuel de l'UM5. Comment puis-je vous aider ?",
               "Salut ! Posez-moi vos questions sur les emplois du temps, reglements et procedures.",
               "Bonjour ! Bienvenue ! Que souhaitez-vous savoir sur l'UM5 ?" }

(***************************************************************************)
(* RAGService: Category Classifier.                                        *)
(***************************************************************************)
\* the categories in declaration order, each with its keywords
categories ==
    << [category |-> "emploi_temps",
        keywords |-> { "emploi du temps", "calendrier", "horaire", "planning",
                       "quand commence", "début", "fin semestre", "vacances",
                       "cours", "séance", "date examen", "rentrée" }],
       [category |-> "reglements",
        keywords |-> { "règlement", "règle", "charte", "interdit", "autorisé",
                       "absence", "retard", "sanction", "discipline",
                       "droit", "obligation", "infraction" }],
       [category |-> "procedures",
        keywords |-> { "inscription", "comment", "procédure", "démarche",
                       "documents", "dossier", "attestation", "certificat",
                       "s'inscrire", "demande", "formulaire" }],
       [category |-> "faqs",
        keywords |-> { "faq", "question fréquente", "aide", "information",
                       "contact", "où trouver", "qui contacter" }] >>

\* the scores dict: one entry per category with a keyword in the query, in
\* declaration order
Scores(query_lower) ==
    SelectSeq([i \in 1..Len(categories) |->
                  [category |-> categories[i].category,
                   score    |-> Cardinality({ k \in categories[i].keywords :
                                                Contains(query_lower, k) })]],
              LAMBDA entry : entry.score > 0)

\* max() replaces the entry it holds by a later one
BetterOrEqual(candidate, best) == candidate.score >= best.score

Better(candidate, best) == candidate.score > best.score

RECURSIVE MaxFrom(_, _, _)
MaxFrom(scores, i, best) ==
    IF i > Len(scores) THEN best
    ELSE MaxFrom(scores, i + 1,
                 IF Better(scores[i], best) THEN scores[i] ELSE best)

\* max(scores, key=scores.get)
MaxByScore(scores) == MaxFrom(scores, 2, scores[1])

\* _detect_category
DetectCategory(query) ==
    LET query_lower == Lower(query)
        scores      == Scores(query_lower)
    IN  IF scores # <<>> THEN MaxByScore(scores).category ELSE None

(***************************************************************************)
(* Calls to the external capabilities, as a stub would record them.        *)
(***************************************************************************)
\* llm_client.chat_completion(messages, model, max_tokens, temperature) and
\* what it did; the temperature is in tenths
LLMCall(prompt, max_tokens, temperature, outcome) ==
    [cap |-> "llm", prompt |-> prompt, max_tokens |-> max_tokens,
     temperature |-> temperature, ok |-> outcome.ok, content |-> outcome.content]

\* collection.query(query_embeddings, n_results, where) and whether it
\* answered; where is None when the keyword is absent or None
IndexCall(query, n, where, ok) ==
    [cap |-> "index", query |-> query, n_results |-> n, where |-> where,
     ok |-> ok]

(***************************************************************************)
(* RAGService: Query Reformulator.                                         *)
(***************************************************************************)
pronouns == {"il", "elle", "ça", "cela", "ils", "elles"}

\* the reformulation prompt: the values interpolated into its template
ReformulationPrompt(history, query) ==
    LET last_exchange == history[Len(history)]
    IN  [kind              |-> "reformulation",
         previous_question |-> last_exchange.question,
         previous_answer   |-> Prefix(last_exchange.answer, 200),
         query             |-> query]

\* reformulate_query returning query for reformulated after the model call
ReformulateQueryDropsRewrite(history, query, outcome) ==
    LET is_followup == \E pronoun \in pronouns : Contains(Lower(query), pronoun)
    IN  IF history = <<>>
        THEN [value |-> query, calls |-> <<>>]
        ELSE IF ~is_followup /\ Len(Split(query)) > 5
        THEN [value |-> query, calls |-> <<>>]
        ELSE [value |-> query,
              calls |-> << LLMCall(ReformulationPrompt(history, query), 50, 3,
                                  outcome) >>]

\* reformulate_query with "or" for "and" in its skip condition
ReformulateQuerySkipsEither(history, query, outcome) ==
    LET is_followup == \E pronoun \in pronouns : Contains(Lower(query), pronoun)
    IN  IF history = <<>>
        THEN [value |-> query, calls |-> <<>>]
        ELSE IF ~is_followup \/ Len(Split(query)) > 5
        THEN [value |-> query, calls |-> <<>>]
        ELSE [value |-> IF outcome.ok THEN Strip(outcome.content) ELSE query,
              calls |-> << LLMCall(ReformulationPrompt(history, query), 50, 3,
                                  outcome) >>]

\* reformulate_query returning the error text from its except branch
ReformulateQueryReturnsError(history, query, outcome) ==
    LET is_followup == \E pronoun \in pronouns : Contains(Lower(query), pronoun)
    IN  IF history = <<>>
        THEN [value |-> query, calls |-> <<>>]
        ELSE IF ~is_followup /\ Len(Split(query)) > 5
        THEN [value |-> query, calls |-> <<>>]
        ELSE [value |-> Strip(outcome.content),
              calls |-> << LLMCall(ReformulationPrompt(history, query), 50, 3,
                                  outcome) >>]

\* reformulate_query under one outcome of its model call: the returned query
\* and the model calls made
ReformulateQuery(history, query, outcome) ==
    LET is_followup == \E pronoun \in pronouns : Contains(Lower(query), pronoun)
    IN  IF history = <<>>
        THEN [value |-> query, calls |-> <<>>]
        ELSE IF ~is_followup /\ Len(Split(query)) > 5
        THEN [value |-> query, calls |-> <<>>]
        ELSE [value |-> IF outcome.ok THEN Strip(outcome.content) ELSE query,
              calls |-> << LLMCall(ReformulationPrompt(history, query), 50, 3,
                                  outcome) >>]

(***************************************************************************)
(* RAGService: Retriever.                                                  *)
(***************************************************************************)
Abs(d) == IF d < 0 THEN -d ELSE d

\* the conversion without abs()
ScoreSigned(distance) == [num |-> 10, den |-> 10 + distance]

\* 1 / (1 + abs(distance)), as a fraction of tenths
Score(distance) == [num |-> 10, den |-> 10 + Abs(distance)]

\* the zip loop filling the list from its end
FormatResultsReversed(results) ==
    [i \in 1..Len(results) |->
        [text     |-> results[Len(results) + 1 - i].document,
         metadata |-> results[Len(results) + 1 - i].metadata,
         score    |-> Score(results[Len(results) + 1 - i].distance)]]

\* the zip loop over results['documents'][0], ['metadatas'][0], ['distances'][0]
FormatResults(results) ==
    [i \in 1..Len(results) |->
        [text     |-> results[i].document,
         metadata |-> results[i].metadata,
         score    |-> Score(results[i].distance)]]

\* _detect_category on the texts that reach it, computed once: the
\* questions and the reformulator's rewrites
ClassifiedQueries ==
    Questions \cup
    { Strip(outcome.content) :
        outcome \in { o \in UNION { ReformulationOutcomes(q) : q \in Questions } :
                        o.ok } }

CategoryOf == [query \in ClassifiedQueries |-> DetectCategory(query)]

\* the where filter of the first query (ask passes no category_filter)
WhereFilter(query) ==
    LET category_filter == IF query \in ClassifiedQueries
                           THEN CategoryOf[query]
                           ELSE DetectCategory(query)
    IN  IF category_filter # None /\ category_filter # "all"
        THEN category_filter
        ELSE None

\* the first query's call and, when it succeeds, the returned documents
FirstQueryCall(query, n, ok) == IndexCall(query, n * 2, WhereFilter(query), ok)

\* the try block returning everything the index sent
FirstQueryDocumentsAll(results, n) == FormatResults(results)

FirstQueryDocuments(results, n) == Prefix(FormatResults(results), n)

\* the query of the except branch and the documents it returns
\* the except branch repeating the filtered query
FallbackQueryCallFiltered(query, n, ok) ==
    IndexCall(query, n, WhereFilter(query), ok)

FallbackQueryCall(query, n, ok) == IndexCall(query, n, None, ok)

FallbackQueryDocuments(results) == FormatResults(results)

(***************************************************************************)
(* RAGService: Prompt Builder and Answer Generator.                        *)
(***************************************************************************)
\* generate_prompt: the values interpolated into the prompt template
GeneratePrompt(query, docs, include_history, history) ==
    LET recent == SubSeq(history,
                         IF Len(history) > 3 THEN Len(history) - 2 ELSE 1,
                         Len(history))
    IN  [kind            |-> "rag",
         history_context |-> IF include_history /\ history # <<>>
                             THEN [i \in 1..Len(recent) |->
                                     [question |-> recent[i].question,
                                      answer   |-> Prefix(recent[i].answer, 100)]]
                             ELSE <<>>,
         context         |-> [i \in 1..Len(docs) |->
                                 [source |-> docs[i].metadata.source,
                                  text   |-> docs[i].text]],
         query           |-> query]

\* generate_answer returning a fixed text from its except branch
GenerateAnswerHidesReason(outcome) ==
    IF outcome.ok
    THEN Strip(outcome.content)
    ELSE "Erreur lors de la generation"

\* generate_answer under one outcome of its model call
GenerateAnswer(outcome) ==
    IF outcome.ok
    THEN Strip(outcome.content)
    ELSE "Erreur lors de la generation : " \o outcome.content

\* the sources list built in reverse order
FormatSourcesReversed(docs) ==
    [i \in 1..Len(docs) |->
        [source   |-> docs[Len(docs) + 1 - i].metadata.source,
         category |-> docs[Len(docs) + 1 - i].metadata.category,
         score    |-> docs[Len(docs) + 1 - i].score]]

\* the sources list of the response
FormatSources(docs) ==
    [i \in 1..Len(docs) |->
        [source   |-> docs[i].metadata.source,
         category |-> docs[i].metadata.category,
         score    |-> docs[i].score]]

\* the reformulated_query field of the response
ReformulatedQuery(query, original) == IF query # original THEN query ELSE None

(***************************************************************************)
(* ConversationManager: the durable store, one JSON file per conversation. *)
(* The files are a function from the ids that have a file to its content.  *)
(* Message ids and timestamps are left out of the content.                 *)
(***************************************************************************)
\* the ids uuid4 can hand to create_conversation
ConvIds == { "conv_4f1c09a2e7b3", "conv_9a2e5d01c8f4", "conv_b7d0363e1a55" }

\* ids a client can put in a request: ids of conversations and ids of its own
ClientIds == ConvIds \cup { "user_1a2b3c4d" }

\* the dictionary create_conversation builds
NewConversation(conv_id) ==
    [id       |-> conv_id,
     messages |-> <<>>,
     metadata |-> [message_count |-> 0]]

\* _save_conversation: write the file of conv_id, whether or not it exists
SaveConversation(files, conv_id, data) ==
    [id \in DOMAIN files \cup {conv_id} |->
        IF id = conv_id THEN data ELSE files[id]]

\* file_path.exists()
Exists(files, conv_id) == conv_id \in DOMAIN files

\* load_conversation: the content of the file, None when there is no file
LoadConversation(files, conv_id) ==
    IF Exists(files, conv_id) THEN files[conv_id] ELSE None

\* create_conversation under the id uuid4 drew: the files afterwards
CreateConversation(files, new_id) ==
    SaveConversation(files, new_id, NewConversation(new_id))

\* delete_conversation: the files afterwards and the returned flag
DeleteConversation(files, conv_id) ==
    IF Exists(files, conv_id)
    THEN [files   |-> [id \in DOMAIN files \ {conv_id} |-> files[id]],
          deleted |-> TRUE]
    ELSE [files |-> files, deleted |-> FALSE]

\* the message dictionary of add_message
Message(role, content, sources) ==
    [role |-> role, content |-> content, sources |-> sources]

\* the append that leaves metadata.message_count as it was
AppendMessageStaleCount(conversation, message) ==
    [conversation EXCEPT !.messages = Append(conversation.messages, message)]

\* add_message: the append to the loaded dictionary and the recount
AppendMessage(conversation, message) ==
    LET messages == Append(conversation.messages, message)
    IN  [conversation EXCEPT !.messages = messages,
                             !.metadata = [message_count |-> Len(messages)]]

\* add_message up to its save: the files after the load (and after the
\* create_conversation of the branch for a missing file, which saves under
\* the id uuid4 drew, new_id), the dictionary to save, and the exception
\* raised when the second load returns None and is subscripted
AddMessageLoad(files, conv_id, new_id, role, content, sources) ==
    LET files_1  == IF ~Exists(files, conv_id)
                    THEN CreateConversation(files, new_id)
                    ELSE files
        conversation == LoadConversation(files_1, conv_id)
    IN  IF ~Exists(files_1, conv_id)
        THEN [files |-> files_1, data |-> None, raised |-> "TypeError"]
        ELSE [files |-> files_1,
              data   |-> AppendMessage(conversation,
                                       Message(role, content, sources)),
              raised |-> None]

\* add_message as one call: load, append and save without interruption
AddMessage(files, conv_id, new_id, role, content, sources) ==
    LET loaded == AddMessageLoad(files, conv_id, new_id, role, content, sources)
    IN  IF loaded.raised # None
        THEN [files |-> loaded.files, raised |-> loaded.raised]
        ELSE [files  |-> SaveConversation(loaded.files, conv_id, loaded.data),
              raised |-> None]

(***************************************************************************)
(* State: one RAGService and the turn it is serving.                       *)
(***************************************************************************)
VARIABLES
    conversation_history,   \* self.conversation_history
    pc,                     \* the stage of ask() about to run
    turns,                  \* ask() calls made so far
    question,               \* ask(question, n_results, use_history)
    n_results,
    use_history,
    search_query,           \* locals of ask()
    documents,
    prompt,
    answer,
    result,                 \* the dictionary ask() returned
    raised,                 \* the exception ask() raised
    calls,                  \* capability calls of this turn, in call order
    trace,                  \* stages this turn has run, in order
    history_at_start,       \* the memory when ask() was entered
    prompt_documents        \* the documents handed to generate_prompt

service_vars == << conversation_history, pc, turns, question, n_results,
                   use_history, search_query, documents, prompt, answer,
                   result, raised, calls, trace, history_at_start,
                   prompt_documents >>

turn_args   == << question, n_results, use_history, history_at_start, turns >>

(***************************************************************************)
(* State outside the service under test: the conversation files and the    *)
(* callers of the store.                                                   *)
(***************************************************************************)
VARIABLES
    store,          \* data/conversations: conversation id -> file content
    appended,       \* per id, the messages the store's direct callers have
                    \* had add_message save
    store_raised,   \* the exception the last store call raised, or None
    writers         \* callers inside add_message: position and loaded copy

store_vars == << store, appended, store_raised, writers >>

\* the callers that can be inside add_message at the same time
Writers == {1, 2}

IdleWriter == [pc |-> "idle", conv_id |-> None, message |-> None, data |-> None]

StoreInit ==
    /\ store = << >>
    /\ appended = << >>
    /\ store_raised = None
    /\ writers = [w \in Writers |-> IdleWriter]

(***************************************************************************)
(* State of the API process: the module globals of routes.py, the          *)
(* RAGService objects they refer to, and the requests being served.        *)
(***************************************************************************)
VARIABLES
    services,       \* the RAGService objects: conversation_history of each
    sessions,       \* sessions: session id -> reference to its RAGService
    rag_service,    \* rag_service: reference to the global one, 0 for None
    requests,       \* the ask requests received: arguments, position, locals
    running,        \* the request whose handler holds the event loop, or 0
    received,       \* ask requests received so far
    route_calls,    \* requests to the other routes served so far
    produced,       \* per session id, the exchanges its own turns memorised
    cleared,        \* per session id, how many of them its memory has dropped
    completed,      \* per session id, the turns that were answered, in order
    response        \* the response of the last request of another route

api_vars == << services, sessions, rag_service, requests, running, received,
               route_calls, produced, cleared, completed, response >>

\* the ask requests that can be in the process at the same time
Slots == {1, 2}

NoRequest ==
    [pc              |-> "FREE",
     session_id      |-> None,
     question        |-> None,
     n_results       |-> 0,
     use_history     |-> FALSE,
     category_filter |-> None,
     first_use       |-> FALSE,
     rag             |-> 0,
     search_query    |-> None,
     documents       |-> <<>>,
     prompt          |-> None,
     result          |-> None,
     status          |-> 0,
     calls           |-> <<>>]

ApiInit ==
    /\ services = <<>>
    /\ sessions = << >>
    /\ rag_service = 0
    /\ requests = [slot \in Slots |-> NoRequest]
    /\ running = 0
    /\ received = 0
    /\ route_calls = 0
    /\ produced = << >>
    /\ cleared = << >>
    /\ completed = << >>
    /\ response = None

(***************************************************************************)
(* State of a caller of the Category Classifier alone.                     *)
(***************************************************************************)
VARIABLES
    classified      \* the words of the query given to _detect_category and
                    \* the category it returned

classifier_vars == << classified >>

ClassifierInit ==
    classified = [words |-> <<>>, category |-> None]

(***************************************************************************)
(* State of the callers of the other functions taken alone: the score     *)
(* conversion, retrieve_documents and chunk_text.                          *)
(***************************************************************************)
VARIABLES
    scored,         \* the last two distances converted and their scores
    retrieval,      \* the last retrieve_documents call: arguments, index
                    \* behaviour and answer, calls made, documents returned
    chunked         \* the last chunk_text call: arguments and chunks

function_vars == << classifier_vars, scored, retrieval, chunked >>

FunctionInit ==
    /\ ClassifierInit
    /\ scored = <<>>
    /\ retrieval = [query |-> None, n_results |-> 0, behaviour |-> None,
                    response |-> <<>>, calls |-> <<>>, documents |-> <<>>,
                    sources |-> <<>>, raised |-> FALSE]
    /\ chunked = [words |-> 0, chunk_size |-> 0, overlap |-> 0,
                  chunks |-> <<>>]

\* everything the turn of one service leaves alone
outside_vars == << store_vars, api_vars, function_vars >>

vars == << service_vars, outside_vars >>

\* a RAGService as __init__ leaves it, and no turn
ServiceInit ==
    /\ conversation_history = <<>>
    /\ pc = "IDLE"
    /\ turns = 0
    /\ question = None
    /\ n_results = 0
    /\ use_history = FALSE
    /\ search_query = None
    /\ documents = <<>>
    /\ prompt = None
    /\ answer = None
    /\ result = None
    /\ raised = None
    /\ calls = <<>>
    /\ trace = <<>>
    /\ history_at_start = <<>>
    /\ prompt_documents = <<>>

Init ==
    /\ StoreInit
    /\ ApiInit
    /\ FunctionInit
    /\ ServiceInit

\* a caller enters ask(); the previous turn, if any, has returned or raised
Ask(q, n, u) ==
    /\ pc \in {"IDLE", "RETURNED", "RAISED"}
    /\ turns < MaxTurns
    /\ turns' = turns + 1
    /\ question' = q
    /\ n_results' = n
    /\ use_history' = u
    /\ history_at_start' = conversation_history
    /\ search_query' = None
    /\ documents' = <<>>
    /\ prompt' = None
    /\ answer' = None
    /\ result' = None
    /\ raised' = None
    /\ calls' = <<>>
    /\ prompt_documents' = <<>>
    /\ trace' = << "START" >>
    /\ pc' = "GREETING_CHECK"
    /\ UNCHANGED conversation_history
    /\ UNCHANGED outside_vars

\* 0. is_greeting(question)
GreetingCheck ==
    /\ pc = "GREETING_CHECK"
    /\ trace' = Append(trace, "GREETING_CHECK")
    /\ pc' = IF IsGreeting(question) THEN "GREETING_REPLY" ELSE "REFORMULATE"
    /\ UNCHANGED << conversation_history, turn_args, search_query, documents,
                    prompt, answer, result, raised, calls, prompt_documents >>
    /\ UNCHANGED outside_vars

\* the early return preceded by add_to_history
GreetingReplyMemorises ==
    /\ pc = "GREETING_REPLY"
    /\ \E reply \in HandleGreeting(question) :
          /\ answer' = reply
          /\ result' = [question           |-> question,
                        answer             |-> reply,
                        sources            |-> <<>>,
                        reformulated_query |-> None,
                        is_greeting        |-> TRUE]
          /\ conversation_history' =
                AddToHistory(conversation_history, question, reply)
    /\ trace' = Append(trace, "GREETING_REPLY")
    /\ pc' = "RETURNED"
    /\ UNCHANGED << turn_args, search_query, documents, prompt, raised, calls,
                    prompt_documents >>
    /\ UNCHANGED outside_vars

\* 0. handle_greeting(question) and the early return
GreetingReply ==
    /\ pc = "GREETING_REPLY"
    /\ \E reply \in HandleGreeting(question) :
          /\ answer' = reply
          /\ result' = [question           |-> question,
                        answer             |-> reply,
                        sources            |-> <<>>,
                        reformulated_query |-> None,
                        is_greeting        |-> TRUE]
    /\ trace' = Append(trace, "GREETING_REPLY")
    /\ pc' = "RETURNED"
    /\ UNCHANGED << conversation_history, turn_args, search_query, documents,
                    prompt, raised, calls, prompt_documents >>
    /\ UNCHANGED outside_vars

\* the reformulation step without its use_history test
ReformulateIgnoringFlag ==
    /\ pc = "REFORMULATE"
    /\ IF conversation_history # <<>>
       THEN \E outcome \in ReformulationOutcomes(question) :
               LET r == ReformulateQuery(conversation_history, question, outcome)
               IN  /\ search_query' = r.value
                   /\ calls' = calls \o r.calls
       ELSE /\ search_query' = question
            /\ calls' = calls
    /\ trace' = Append(trace, "REFORMULATE")
    /\ pc' = "RETRIEVE"
    /\ UNCHANGED << conversation_history, turn_args, documents, prompt, answer,
                    result, raised, prompt_documents >>
    /\ UNCHANGED outside_vars

\* 1. search_query = question, reformulated when use_history and memory
Reformulate ==
    /\ pc = "REFORMULATE"
    /\ IF use_history /\ conversation_history # <<>>
       THEN \E outcome \in ReformulationOutcomes(question) :
               LET r == ReformulateQuery(conversation_history, question, outcome)
               IN  /\ search_query' = r.value
                   /\ calls' = calls \o r.calls
       ELSE /\ search_query' = question
            /\ calls' = calls
    /\ trace' = Append(trace, "REFORMULATE")
    /\ pc' = "RETRIEVE"
    /\ UNCHANGED << conversation_history, turn_args, documents, prompt, answer,
                    result, raised, prompt_documents >>
    /\ UNCHANGED outside_vars

\* 2. retrieve_documents: the query of the try block answers
RetrieveQueryOk ==
    /\ pc = "RETRIEVE"
    /\ LET call == FirstQueryCall(search_query, n_results, TRUE)
       IN  /\ calls' = Append(calls, call)
           /\ \E results \in IndexResponses(call.n_results, call.where) :
                 documents' = FirstQueryDocuments(results, n_results)
    /\ trace' = Append(trace, "RETRIEVE")
    /\ pc' = "BUILD_PROMPT"
    /\ UNCHANGED << conversation_history, turn_args, search_query, prompt,
                    answer, result, raised, prompt_documents >>
    /\ UNCHANGED outside_vars

\* 2. retrieve_documents: the query of the try block raises
RetrieveQueryFails ==
    /\ pc = "RETRIEVE"
    /\ calls' = Append(calls, FirstQueryCall(search_query, n_results, FALSE))
    /\ trace' = Append(trace, "RETRIEVE")
    /\ pc' = "RETRIEVE_FALLBACK"
    /\ UNCHANGED << conversation_history, turn_args, search_query, documents,
                    prompt, answer, result, raised, prompt_documents >>
    /\ UNCHANGED outside_vars

\* 2. retrieve_documents: the query of the except branch answers
FallbackQueryOk ==
    /\ pc = "RETRIEVE_FALLBACK"
    /\ LET call == FallbackQueryCall(search_query, n_results, TRUE)
       IN  /\ calls' = Append(calls, call)
           /\ \E results \in IndexResponses(call.n_results, call.where) :
                 documents' = FallbackQueryDocuments(results)
    /\ pc' = "BUILD_PROMPT"
    /\ UNCHANGED << conversation_history, turn_args, search_query, prompt,
                    answer, result, raised, trace, prompt_documents >>
    /\ UNCHANGED outside_vars

\* the except branch swallowing the second failure: ask() answers without
\* documents and without generation
FallbackQueryFailsMasked ==
    /\ pc = "RETRIEVE_FALLBACK"
    /\ calls' = Append(calls, FallbackQueryCall(search_query, n_results, FALSE))
    /\ answer' = ""
    /\ result' = [question           |-> question,
                  answer             |-> "",
                  sources            |-> <<>>,
                  reformulated_query |-> ReformulatedQuery(search_query, question),
                  is_greeting        |-> FALSE]
    /\ trace' = Append(trace, "DONE")
    /\ pc' = "RETURNED"
    /\ UNCHANGED << conversation_history, turn_args, search_query, documents,
                    prompt, raised, prompt_documents >>
    /\ UNCHANGED outside_vars

\* 2. retrieve_documents: the query of the except branch raises, and the
\* exception leaves ask()
FallbackQueryFails ==
    /\ pc = "RETRIEVE_FALLBACK"
    /\ calls' = Append(calls, FallbackQueryCall(search_query, n_results, FALSE))
    /\ raised' = "index unavailable"
    /\ pc' = "RAISED"
    /\ UNCHANGED << conversation_history, turn_args, search_query, documents,
                    prompt, answer, result, trace, prompt_documents >>
    /\ UNCHANGED outside_vars

\* generate_prompt given the query that went to the Retriever
BuildPromptFromSearchQuery ==
    /\ pc = "BUILD_PROMPT"
    /\ prompt' = GeneratePrompt(search_query, documents, use_history,
                                conversation_history)
    /\ prompt_documents' = documents
    /\ trace' = Append(trace, "BUILD_PROMPT")
    /\ pc' = "GENERATE"
    /\ UNCHANGED << conversation_history, turn_args, search_query, documents,
                    answer, result, raised, calls >>
    /\ UNCHANGED outside_vars

\* 3. generate_prompt(question, documents, include_history=use_history)
BuildPrompt ==
    /\ pc = "BUILD_PROMPT"
    /\ prompt' = GeneratePrompt(question, documents, use_history,
                                conversation_history)
    /\ prompt_documents' = documents
    /\ trace' = Append(trace, "BUILD_PROMPT")
    /\ pc' = "GENERATE"
    /\ UNCHANGED << conversation_history, turn_args, search_query, documents,
                    answer, result, raised, calls >>
    /\ UNCHANGED outside_vars

\* 4. generate_answer(prompt, max_tokens=200)
Generate ==
    /\ pc = "GENERATE"
    /\ \E outcome \in GenerationOutcomes :
          /\ answer' = GenerateAnswer(outcome)
          /\ calls' = Append(calls, LLMCall(prompt, 200, 7, outcome))
    /\ trace' = Append(trace, "GENERATE")
    /\ pc' = "UPDATE_MEMORY"
    /\ UNCHANGED << conversation_history, turn_args, search_query, documents,
                    prompt, result, raised, prompt_documents >>
    /\ UNCHANGED outside_vars

\* the memory update without its use_history test
UpdateMemoryAlways(history, use, q, a) == AddToHistory(history, q, a)

\* the memory update leaving out the answers of a failed generation
UpdateMemorySkipsErrors(history, use, q, a) ==
    IF use /\ a \notin { GenerateAnswer(outcome) :
                           outcome \in { o \in GenerationOutcomes : ~o.ok } }
    THEN AddToHistory(history, q, a)
    ELSE history

\* 5. if use_history: add_to_history(question, answer)
UpdateMemory(history, use, q, a) ==
    IF use THEN AddToHistory(history, q, a) ELSE history

\* 5. the memory update, 6. the sources and the return
UpdateMemoryAndReturn ==
    /\ pc = "UPDATE_MEMORY"
    /\ conversation_history' =
          UpdateMemory(conversation_history, use_history, question, answer)
    /\ result' = [question           |-> question,
                  answer             |-> answer,
                  sources            |-> FormatSources(documents),
                  reformulated_query |-> ReformulatedQuery(search_query, question),
                  is_greeting        |-> FALSE]
    /\ trace' = trace \o (IF use_history THEN << "UPDATE_MEMORY" >> ELSE <<>>)
                      \o << "DONE" >>
    /\ pc' = "RETURNED"
    /\ UNCHANGED << turn_args, search_query, documents, prompt, answer, raised,
                    calls, prompt_documents >>
    /\ UNCHANGED outside_vars

Next ==
    \/ \E q \in Questions, n \in NResults, u \in BOOLEAN : Ask(q, n, u)
    \/ GreetingCheck
    \/ GreetingReply
    \/ Reformulate
    \/ RetrieveQueryOk
    \/ RetrieveQueryFails
    \/ FallbackQueryOk
    \/ FallbackQueryFails
    \/ BuildPrompt
    \/ Generate
    \/ UpdateMemoryAndReturn

Spec == Init /\ [][Next]_vars

(***************************************************************************)
(* Conversation Memory on its own: any sequence of add_to_history calls    *)
(* on one service.                                                         *)
(***************************************************************************)
MemoryQuestions == { "Et combien de temps dure-t-il ?", "Frais inscription ?" }

MemoryAnswers == { GenerateAnswer(outcome) : outcome \in GenerationOutcomes }

\* a caller invokes add_to_history(q, a)
AddToHistoryCall(q, a) ==
    /\ pc \in {"IDLE", "ADDED"}
    /\ history_at_start' = conversation_history
    /\ question' = q
    /\ answer' = a
    /\ conversation_history' = AddToHistory(conversation_history, q, a)
    /\ pc' = "ADDED"
    /\ UNCHANGED << turns, n_results, use_history, search_query, documents,
                    prompt, result, raised, calls, trace, prompt_documents >>
    /\ UNCHANGED outside_vars

NextMemory ==
    \E q \in MemoryQuestions, a \in MemoryAnswers : AddToHistoryCall(q, a)

SpecMemory == Init /\ [][NextMemory]_vars

(***************************************************************************)
(* The store on its own: one caller making any sequence of calls.          *)
(***************************************************************************)
\* the longest transcript the calls build
MaxMessages == 3

\* role and content of the messages the callers add
StoreMessages ==
    { << "user", "Frais inscription ?" >>,
      << "assistant", "Le 18 septembre." >> }

\* the record of saved messages, with the entry of conv_id set to messages
Record(log, conv_id, messages) ==
    [id \in DOMAIN log \cup {conv_id} |->
        IF id = conv_id THEN messages ELSE log[id]]

\* ids uuid4 can still draw: create_conversation never meets an existing file
FreshIds(conv_id) == ConvIds \ (DOMAIN store \cup {conv_id})

\* a caller invokes create_conversation()
CreateConversationCall(new_id) ==
    /\ new_id \in FreshIds(None)
    /\ store' = CreateConversation(store, new_id)
    /\ appended' = Record(appended, new_id, <<>>)
    /\ store_raised' = None
    /\ UNCHANGED << writers, service_vars, api_vars, function_vars >>

\* a caller invokes add_message(conv_id, role, content) and it runs to its end
AddMessageCall(conv_id, role, content) ==
    /\ Exists(store, conv_id) => Len(store[conv_id].messages) < MaxMessages
    /\ \E new_id \in IF Exists(store, conv_id) THEN {None}
                      ELSE FreshIds(conv_id) :
          LET added == AddMessage(store, conv_id, new_id, role, content, <<>>)
          IN  /\ store' = added.files
              /\ store_raised' = added.raised
              /\ appended' =
                    IF added.raised = None
                    THEN Record(appended, conv_id,
                                Append(appended[conv_id],
                                       Message(role, content, <<>>)))
                    ELSE Record(appended, new_id, <<>>)
    /\ UNCHANGED << writers, service_vars, api_vars, function_vars >>

\* a caller invokes delete_conversation(conv_id)
DeleteConversationCall(conv_id) ==
    /\ store' = DeleteConversation(store, conv_id).files
    /\ appended' = [id \in DOMAIN appended \ {conv_id} |-> appended[id]]
    /\ store_raised' = None
    /\ UNCHANGED << writers, service_vars, api_vars, function_vars >>

NextStore ==
    \/ \E new_id \in ConvIds : CreateConversationCall(new_id)
    \/ \E conv_id \in ClientIds, m \in StoreMessages :
          AddMessageCall(conv_id, m[1], m[2])
    \/ \E conv_id \in ClientIds : DeleteConversationCall(conv_id)

SpecStore == Init /\ [][NextStore]_vars

(***************************************************************************)
(* The store under two callers: add_message takes no lock, so between its  *)
(* load and its save the other caller can run.                             *)
(***************************************************************************)
\* the callers between the load and the save of add_message(conv_id, ...)
InsideAddMessage(conv_id) ==
    { w \in Writers : writers[w].pc = "loaded" /\ writers[w].conv_id = conv_id }

\* caller w enters add_message(conv_id, role, content) and runs it up to
\* its save: the load, the message and the append to the loaded copy
WriterLoad(w, conv_id, role, content) ==
    /\ writers[w].pc = "idle"
    /\ Exists(store, conv_id) =>
          Len(appended[conv_id]) + Cardinality(InsideAddMessage(conv_id))
              < MaxMessages
    /\ \E new_id \in IF Exists(store, conv_id) THEN {None}
                      ELSE FreshIds(conv_id) :
          LET loaded == AddMessageLoad(store, conv_id, new_id, role, content,
                                       <<>>)
          IN  /\ store' = loaded.files
              /\ store_raised' = loaded.raised
              /\ IF loaded.raised = None
                 THEN /\ writers' =
                           [writers EXCEPT ![w] =
                               [pc      |-> "loaded",
                                conv_id |-> conv_id,
                                message |-> Message(role, content, <<>>),
                                data    |-> loaded.data]]
                      /\ appended' = appended
                 ELSE /\ writers' = writers
                      /\ appended' = Record(appended, new_id, <<>>)
    /\ UNCHANGED << service_vars, api_vars, function_vars >>

\* caller w runs the save of add_message and returns
WriterSave(w) ==
    /\ writers[w].pc = "loaded"
    /\ store' = SaveConversation(store, writers[w].conv_id, writers[w].data)
    /\ appended' = Record(appended, writers[w].conv_id,
                          Append(appended[writers[w].conv_id],
                                 writers[w].message))
    /\ store_raised' = None
    /\ writers' = [writers EXCEPT ![w] = IdleWriter]
    /\ UNCHANGED << service_vars, api_vars, function_vars >>

\* the ids the two callers write to: a conversation's and a client's own
WriterIds == { "conv_4f1c09a2e7b3", "user_1a2b3c4d" }

NextWriters ==
    \/ \E new_id \in ConvIds : CreateConversationCall(new_id)
    \/ \E w \in Writers, conv_id \in WriterIds, m \in StoreMessages :
          WriterLoad(w, conv_id, m[1], m[2])
    \/ \E w \in Writers : WriterSave(w)

SpecWriters == Init /\ [][NextWriters]_vars

(***************************************************************************)
(* The API process: routes.py on one event loop.                           *)
(***************************************************************************)
\* ask requests the process receives
MaxRequests == 2

\* requests to the routes other than /ask
MaxRouteCalls == 1

\* session_id of a request: absent, the id of a conversation, an id of the
\* client's own making
ApiSessionIds ==
    { None, "conv_4f1c09a2e7b3", "conv_9a2e5d01c8f4", "user_1a2b3c4d" }

\* a QuestionRequest body
QuestionRequest(session_id, q, n, u, c) ==
    [session_id |-> session_id, question |-> q, n_results |-> n,
     use_history |-> u, category_filter |-> c]

\* the bodies the clients post
ApiRequests ==
    { QuestionRequest(None, "Et combien de temps dure-t-il ?", 1, TRUE, None),
      QuestionRequest("conv_4f1c09a2e7b3", "Et combien de temps dure-t-il ?",
                      1, TRUE, None),
      QuestionRequest("conv_4f1c09a2e7b3", "Merci beaucoup !", 1, TRUE, None),
      QuestionRequest("conv_9a2e5d01c8f4",
                      "Quand commence le semestre d'automne ?", 1, TRUE,
                      "reglements"),
      QuestionRequest("user_1a2b3c4d", "Et combien de temps dure-t-il ?",
                      1, TRUE, None) }

\* how the vector index behaves during one retrieve_documents call: the
\* first query answers, only the second does, or neither
IndexBehaviours == { "answers", "fails once", "fails" }

ApiIndexBehaviours == { "answers", "fails" }

\* the ids uuid4 can hand to create_conversation in this process
ApiFreshIds == { "conv_b7d0363e1a55", "conv_c3a9e0f1b2d4" } \ DOMAIN store

\* the ids in the paths of the requests to the other routes
RouteIds == { "conv_4f1c09a2e7b3", "conv_9a2e5d01c8f4" }

\* the capabilities as the API process meets them
ApiReformulationOutcomes(query) ==
    { outcome \in ReformulationOutcomes(query) : outcome.content # query }

ApiGenerationOutcomes == { outcome \in GenerationOutcomes : outcome.ok }

ApiRankings == { << 1, 2, 3 >> }

\* ask_question awaiting the answer generation
AwaitPointsAtGenerate == { "GENERATE" }

\* the places of ask_question where the coroutine gives up the event loop:
\* it awaits nothing, and rag.ask and the store calls are plain calls
AwaitPoints == { }

\* the entry of log for key, empty when it has none
Log(log, key) == IF key \in DOMAIN log THEN log[key] ELSE <<>>

\* get_rag_service(session_id) sharing the global service with the sessions
GetRagServiceShared(registry, global, heap, session_id) ==
    LET new == Len(heap) + 1
        ref == IF global = 0 THEN new ELSE global
    IN  [rag         |-> ref,
         sessions    |-> IF session_id # None
                         THEN Record(registry, session_id, ref)
                         ELSE registry,
         rag_service |-> ref,
         services    |-> IF global = 0 THEN Append(heap, <<>>) ELSE heap]

\* get_rag_service(session_id): the service returned and the globals after
GetRagService(registry, global, heap, session_id) ==
    LET new == Len(heap) + 1
    IN  IF session_id # None
        THEN IF session_id \notin DOMAIN registry
             THEN [rag         |-> new,
                   sessions    |-> Record(registry, session_id, new),
                   rag_service |-> global,
                   services    |-> Append(heap, <<>>)]
             ELSE [rag         |-> registry[session_id],
                   sessions    |-> registry,
                   rag_service |-> global,
                   services    |-> heap]
        ELSE IF global = 0
             THEN [rag         |-> new,
                   sessions    |-> registry,
                   rag_service |-> new,
                   services    |-> Append(heap, <<>>)]
             ELSE [rag         |-> global,
                   sessions    |-> registry,
                   rag_service |-> global,
                   services    |-> heap]

\* retrieve_documents(query, n) as ask calls it, under one behaviour of the
\* index: the calls made, the documents returned, whether it raised
RetrieveDocuments(query, n, behaviour, ranking) ==
    LET first    == FirstQueryCall(query, n, behaviour = "answers")
        fallback == FallbackQueryCall(query, n, behaviour = "fails once")
    IN  CASE behaviour = "answers" ->
               [raised    |-> FALSE,
                calls     |-> << first >>,
                documents |-> FirstQueryDocuments(
                                 QueryResult(ranking, first.n_results,
                                             first.where), n)]
          [] behaviour = "fails once" ->
               [raised    |-> FALSE,
                calls     |-> << first, fallback >>,
                documents |-> FallbackQueryDocuments(
                                 QueryResult(ranking, fallback.n_results,
                                             fallback.where))]
          [] OTHER ->
               [raised    |-> TRUE,
                calls     |-> << first, fallback >>,
                documents |-> <<>>]

\* is_greeting on the questions, computed once
GreetingOf == [q \in Questions |-> IsGreeting(q)]

\* the handler of slot can take its next step: it holds the event loop, or
\* it awaits and the loop is free
Holds(slot) ==
    \/ running = slot
    \/ running = 0 /\ requests[slot].pc \in AwaitPoints

\* who holds the event loop after a step that leaves the handler at pc_after
LoopAfter(slot, pc_after) ==
    IF pc_after = "DONE" \/ pc_after \in AwaitPoints THEN 0 ELSE slot

\* the handler of r has returned with status: its locals are gone, and what
\* stays is what the client has, the request and the status of the response
Responded(r, status) ==
    [NoRequest EXCEPT !.pc = "DONE",
                      !.session_id = r.session_id,
                      !.question = r.question,
                      !.n_results = r.n_results,
                      !.use_history = r.use_history,
                      !.category_filter = r.category_filter,
                      !.first_use = r.first_use,
                      !.status = status]

\* the server receives POST /ask; the handler is scheduled, not yet run
Receive(slot, body) ==
    /\ requests[slot].pc \in {"FREE", "DONE"}
    /\ \A other \in Slots :
          other < slot => requests[other].pc \notin {"FREE", "DONE"}
    /\ received < MaxRequests
    /\ received' = received + 1
    /\ requests' = [requests EXCEPT ![slot] =
                       [NoRequest EXCEPT
                           !.pc = "PENDING",
                           !.session_id = body.session_id,
                           !.question = body.question,
                           !.n_results = body.n_results,
                           !.use_history = body.use_history,
                           !.category_filter = body.category_filter]]
    /\ UNCHANGED << services, sessions, rag_service, running, route_calls,
                    produced, cleared, completed, response, store_vars,
                    service_vars, function_vars >>

\* ask_question up to rag.ask: the conversation is created if need be, the
\* service is fetched and the question is saved; an exception of
\* add_message is answered with status 500
EnterAsk(slot) ==
    LET r          == requests[slot]
        session_id == r.session_id
        first_use  == session_id # None /\ ~Exists(store, session_id)
    IN  /\ r.pc = "PENDING"
        /\ running = 0
        /\ \E id_1 \in IF first_use THEN ApiFreshIds ELSE {None},
              id_2 \in IF first_use THEN ApiFreshIds ELSE {None} :
              /\ first_use => id_1 # id_2
              /\ LET files_1 == IF first_use
                                THEN CreateConversation(store, id_1)
                                ELSE store
                     got     == GetRagService(sessions, rag_service, services,
                                              session_id)
                     added   == IF session_id # None
                                THEN AddMessage(files_1, session_id, id_2,
                                                "user", r.question, <<>>)
                                ELSE [files |-> files_1, raised |-> None]
                     pc_after == IF added.raised = None THEN "ASK" ELSE "DONE"
                 IN  /\ store' = added.files
                     /\ sessions' = got.sessions
                     /\ rag_service' = got.rag_service
                     /\ services' = got.services
                     /\ requests' = [requests EXCEPT ![slot] =
                           IF added.raised = None
                           THEN [r EXCEPT !.pc = "ASK",
                                          !.rag = got.rag,
                                          !.first_use = first_use]
                           ELSE Responded([r EXCEPT !.first_use = first_use],
                                          500)]
                     /\ running' = LoopAfter(slot, pc_after)
        /\ UNCHANGED << received, route_calls, produced, cleared, completed,
                        response, appended, store_raised, writers,
                        service_vars, function_vars >>

\* rag.ask from the greeting check to the prompt: a greeting is answered at
\* once; otherwise the query is reformulated, the documents are retrieved
\* and the prompt is built, or retrieve_documents raises and the request
\* is answered with status 500
AskToPrompt(slot) ==
    LET r       == requests[slot]
        history == services[r.rag]
    IN  /\ r.pc = "ASK"
        /\ Holds(slot)
        /\ IF GreetingOf[r.question]
           THEN \E reply \in HandleGreeting(r.question) :
                  /\ requests' = [requests EXCEPT ![slot] =
                        [r EXCEPT !.pc = "SAVE",
                                  !.result =
                                      [question           |-> r.question,
                                       answer             |-> reply,
                                       sources            |-> <<>>,
                                       reformulated_query |-> None,
                                       is_greeting        |-> TRUE]]]
                  /\ running' = LoopAfter(slot, "SAVE")
           ELSE \E outcome \in ApiReformulationOutcomes(r.question),
                   behaviour \in ApiIndexBehaviours, ranking \in ApiRankings :
                  LET reformulated ==
                          IF r.use_history /\ history # <<>>
                          THEN ReformulateQuery(history, r.question, outcome)
                          ELSE [value |-> r.question, calls |-> <<>>]
                      retrieved ==
                          RetrieveDocuments(reformulated.value, r.n_results,
                                            behaviour, ranking)
                      pc_after == IF retrieved.raised THEN "DONE"
                                  ELSE "GENERATE"
                  IN  /\ requests' = [requests EXCEPT ![slot] =
                            IF retrieved.raised
                            THEN Responded(r, 500)
                            ELSE [r EXCEPT
                                    !.pc = "GENERATE",
                                    !.search_query = reformulated.value,
                                    !.documents = retrieved.documents,
                                    !.calls = reformulated.calls
                                                  \o retrieved.calls,
                                    !.prompt =
                                        GeneratePrompt(r.question,
                                                       retrieved.documents,
                                                       r.use_history,
                                                       history)]]
                      /\ running' = LoopAfter(slot, pc_after)
        /\ UNCHANGED << services, sessions, rag_service, received, route_calls,
                        produced, cleared, completed, response, store_vars,
                        service_vars, function_vars >>

\* rag.ask from the generation to its return: the answer, the memory
\* update and the result, for the outcomes the generation call may have
GenerateAndUpdateWith(slot, outcomes) ==
    LET r   == requests[slot]
        key == r.session_id
    IN  /\ r.pc = "GENERATE"
        /\ Holds(slot)
        /\ \E outcome \in outcomes :
              LET reply == GenerateAnswer(outcome)
              IN  /\ services' = [services EXCEPT ![r.rag] =
                        UpdateMemory(@, r.use_history, r.question, reply)]
                  /\ produced' =
                        IF r.use_history
                        THEN Record(produced, key,
                                    Append(Log(produced, key),
                                           [question |-> r.question,
                                            answer   |-> reply]))
                        ELSE produced
                  /\ requests' = [requests EXCEPT ![slot] =
                        [r EXCEPT
                           !.pc = "SAVE",
                           !.calls = Append(r.calls,
                                            LLMCall(r.prompt, 200, 7, outcome)),
                           !.result =
                               [question           |-> r.question,
                                answer             |-> reply,
                                sources            |-> FormatSources(r.documents),
                                reformulated_query |->
                                    ReformulatedQuery(r.search_query,
                                                      r.question),
                                is_greeting        |-> FALSE]]]
        /\ running' = LoopAfter(slot, "SAVE")
        /\ UNCHANGED << sessions, rag_service, received, route_calls, cleared,
                        completed, response, store_vars,
                        service_vars, function_vars >>

GenerateAndUpdate(slot) == GenerateAndUpdateWith(slot, ApiGenerationOutcomes)

\* ask_question after rag.ask: the answer is saved with its sources and the
\* response is returned; an exception of add_message is answered with 500
SaveAnswer(slot) ==
    LET r          == requests[slot]
        session_id == r.session_id
        missing    == session_id # None /\ ~Exists(store, session_id)
    IN  /\ r.pc = "SAVE"
        /\ Holds(slot)
        /\ \E new_id \in IF missing THEN ApiFreshIds ELSE {None} :
              LET added == IF session_id # None
                           THEN AddMessage(store, session_id, new_id,
                                           "assistant", r.result.answer,
                                           r.result.sources)
                           ELSE [files |-> store, raised |-> None]
              IN  /\ store' = added.files
                  /\ requests' = [requests EXCEPT ![slot] =
                        Responded(r, IF added.raised = None
                                     THEN 200 ELSE 500)]
                  /\ completed' =
                        IF added.raised = None /\ session_id # None
                        THEN Record(completed, session_id,
                                    Append(Log(completed, session_id),
                                           [question |-> r.question,
                                            answer   |-> r.result.answer]))
                        ELSE completed
        /\ running' = LoopAfter(slot, "DONE")
        /\ UNCHANGED << services, sessions, rag_service, received, route_calls,
                        produced, cleared, response, appended, store_raised,
                        writers, service_vars, function_vars >>

\* clear_history sparing no session
ClearHistoryOfAll(heap, ref) == [i \in 1..Len(heap) |-> <<>>]

\* sessions[session_id].clear_history(): the services afterwards
ClearHistory(heap, ref) == [heap EXCEPT ![ref] = <<>>]

\* DELETE /history/{session_id}
ClearHistoryRoute(session_id) ==
    /\ running = 0
    /\ route_calls < MaxRouteCalls
    /\ route_calls' = route_calls + 1
    /\ IF session_id \notin DOMAIN sessions
       THEN /\ response' = [route |-> "clear_history", id |-> session_id,
                            status |-> 404]
            /\ UNCHANGED << services, cleared >>
       ELSE /\ services' = ClearHistory(services, sessions[session_id])
            /\ cleared' = Record(cleared, session_id,
                                 Len(Log(produced, session_id)))
            /\ response' = [route |-> "clear_history", id |-> session_id,
                            status |-> 200]
    /\ UNCHANGED << sessions, rag_service, requests, running, received,
                    produced, completed, store_vars,
                    service_vars, function_vars >>

\* DELETE /conversations/{conv_id}: the file is deleted and with it the
\* session of the same id
DeleteConversationRoute(conv_id) ==
    /\ running = 0
    /\ route_calls < MaxRouteCalls
    /\ route_calls' = route_calls + 1
    /\ LET done == DeleteConversation(store, conv_id)
       IN  /\ store' = done.files
           /\ response' = [route |-> "delete_conversation", id |-> conv_id,
                           status |-> IF done.deleted THEN 200 ELSE 404]
           /\ sessions' = IF done.deleted
                          THEN [id \in DOMAIN sessions \ {conv_id} |->
                                   sessions[id]]
                          ELSE sessions
           /\ cleared' = IF done.deleted /\ conv_id \in DOMAIN sessions
                         THEN Record(cleared, conv_id,
                                     Len(Log(produced, conv_id)))
                         ELSE cleared
           /\ completed' = IF done.deleted
                           THEN [id \in DOMAIN completed \ {conv_id} |->
                                    completed[id]]
                           ELSE completed
    /\ UNCHANGED << services, rag_service, requests, running, received,
                    produced, appended, store_raised, writers,
                    service_vars, function_vars >>

NextApi ==
    \/ \E slot \in Slots, body \in ApiRequests : Receive(slot, body)
    \/ \E slot \in Slots : EnterAsk(slot)
    \/ \E slot \in Slots : AskToPrompt(slot)
    \/ \E slot \in Slots : GenerateAndUpdate(slot)
    \/ \E slot \in Slots : SaveAnswer(slot)
    \/ \E session_id \in RouteIds : ClearHistoryRoute(session_id)
    \/ \E conv_id \in RouteIds : DeleteConversationRoute(conv_id)

\* the process starts on the files earlier runs left in data/conversations:
\* here two conversations without messages
InitApi ==
    /\ ApiInit
    /\ store = CreateConversation(
                  CreateConversation(<< >>, "conv_4f1c09a2e7b3"),
                  "conv_9a2e5d01c8f4")
    /\ appended = [id \in DOMAIN store |-> <<>>]
    /\ store_raised = None
    /\ writers = [w \in Writers |-> IdleWriter]
    /\ FunctionInit
    /\ ServiceInit

SpecApi == InitApi /\ [][NextApi]_vars

(***************************************************************************)
(* The same process while the inference capability is down: every          *)
(* generation call raises.                                                 *)
(***************************************************************************)
DegradedGenerationOutcomes == { outcome \in GenerationOutcomes : ~outcome.ok }

GenerateFailsAndUpdate(slot) ==
    GenerateAndUpdateWith(slot, DegradedGenerationOutcomes)

NextApiDegraded ==
    \/ \E slot \in Slots, body \in ApiRequests : Receive(slot, body)
    \/ \E slot \in Slots : EnterAsk(slot)
    \/ \E slot \in Slots : AskToPrompt(slot)
    \/ \E slot \in Slots : GenerateFailsAndUpdate(slot)
    \/ \E slot \in Slots : SaveAnswer(slot)
    \/ \E session_id \in RouteIds : ClearHistoryRoute(session_id)
    \/ \E conv_id \in RouteIds : DeleteConversationRoute(conv_id)

SpecApiDegraded == InitApi /\ [][NextApiDegraded]_vars

(***************************************************************************)
(* The Category Classifier called on queries built from a few words.       *)
(***************************************************************************)
MaxWords == 3

\* words a query is made of: keywords of each category, one keyword inside
\* another, upper case, and a word that is no keyword
Vocabulary ==
    << "règle", "ABSENCE", "cours", "inscription", "Règlement", "bonjour",
       "aide", "Horaire" >>

RECURSIVE QueryOf(_)
\* the words separated by one space
QueryOf(words) ==
    IF words = <<>> THEN ""
    ELSE IF Len(words) = 1 THEN Vocabulary[words[1]]
    ELSE Vocabulary[words[1]] \o " " \o QueryOf(Tail(words))

\* _detect_category(query) for the query made longer by one word
DetectCategoryCall(word) ==
    /\ Len(classified.words) < MaxWords
    /\ LET words == Append(classified.words, word)
       IN  classified' = [words    |-> words,
                          category |-> DetectCategory(QueryOf(words))]
    /\ UNCHANGED << service_vars, store_vars, api_vars, scored, retrieval,
                    chunked >>

NextClassifier == \E word \in 1..Len(Vocabulary) : DetectCategoryCall(word)

SpecClassifier == Init /\ [][NextClassifier]_vars

(***************************************************************************)
(* retrieve_documents called alone, on an index that holds the whole       *)
(* corpus and ranks it by ascending distance, equal distances included.    *)
(***************************************************************************)
RetrieverRankings == { <<1, 4, 2, 3>>, <<4, 3, 1, 2>>, <<2, 1, 3, 4>> }

\* the distances of the ranks, nearest first (in tenths)
RetrieverDistances == { <<0, 4, 12, 12>>, <<4, 4, 4, 9>>, <<0, 0, 3, 12>> }

\* retrieve_documents(query, n) under one behaviour of the index, and the
\* sources list ask builds from the documents
RetrieveDocumentsCall(query, n, behaviour, ranking, distances) ==
    /\ LET first    == FirstQueryCall(query, n, behaviour = "answers")
           fallback == FallbackQueryCall(query, n, behaviour = "fails once")
           results  ==
               CASE behaviour = "answers" ->
                      QueryResultAt(ranking, distances, first.n_results,
                                    first.where)
                 [] behaviour = "fails once" ->
                      QueryResultAt(ranking, distances, fallback.n_results,
                                    fallback.where)
                 [] OTHER -> <<>>
           docs ==
               CASE behaviour = "answers" -> FirstQueryDocuments(results, n)
                 [] behaviour = "fails once" -> FallbackQueryDocuments(results)
                 [] OTHER -> <<>>
       IN  retrieval' = [query     |-> query,
                         n_results |-> n,
                         behaviour |-> behaviour,
                         response  |-> results,
                         calls     |-> IF behaviour = "answers"
                                       THEN << first >>
                                       ELSE << first, fallback >>,
                         documents |-> docs,
                         sources   |-> FormatSources(docs),
                         raised    |-> behaviour = "fails"]
    /\ UNCHANGED << service_vars, store_vars, api_vars, classifier_vars,
                    scored, chunked >>

NextRetriever ==
    \E query \in Questions, n \in NResults, behaviour \in IndexBehaviours,
       ranking \in RetrieverRankings, distances \in RetrieverDistances :
        RetrieveDocumentsCall(query, n, behaviour, ranking, distances)

SpecRetriever == Init /\ [][NextRetriever]_vars

(***************************************************************************)
(* chunk_documents.chunk_text called on texts of single-letter words.      *)
(***************************************************************************)
\* the longest text, in words, and the largest chunk_size
MaxTextWords == 10

MaxChunkSize == 4

TextWords == << "A", "B", "C", "D", "E", "F", "G", "H", "I", "J", "K", "L" >>

RECURSIVE Join(_)
\* ' '.join(words)
Join(words) ==
    IF words = <<>> THEN ""
    ELSE IF Len(words) = 1 THEN words[1]
    ELSE words[1] \o " " \o Join(Tail(words))

\* the text made of the first n words
Text(n) == Join(SubSeq(TextWords, 1, n))

RECURSIVE ChunksFrom(_, _, _, _)
\* the while loop of chunk_text, from position start (counted from 0)
ChunksFrom(words, start, chunk_size, overlap) ==
    IF start < Len(words)
    THEN LET end == start + chunk_size
             chunk_words == SubSeq(words, start + 1,
                                   IF end < Len(words) THEN end ELSE Len(words))
         IN  << Join(chunk_words) >>
                \o ChunksFrom(words, start + (chunk_size - overlap),
                              chunk_size, overlap)
    ELSE <<>>

\* chunk_text(text, chunk_size, overlap)
ChunkText(text, chunk_size, overlap) ==
    LET words == Split(text)
    IN  IF Len(words) <= chunk_size
        THEN << text >>
        ELSE ChunksFrom(words, 0, chunk_size, overlap)

\* a caller chunks a text; the overlap is smaller than the chunk size, as in
\* process_all_documents
ChunkTextCall(n, chunk_size, overlap) ==
    /\ overlap < chunk_size
    /\ chunked' = [words      |-> n,
                   chunk_size |-> chunk_size,
                   overlap    |-> overlap,
                   chunks     |-> ChunkText(Text(n), chunk_size, overlap)]
    /\ UNCHANGED << service_vars, store_vars, api_vars, classifier_vars,
                    scored, retrieval >>

NextChunker ==
    \E n \in 0..MaxTextWords, chunk_size \in 1..MaxChunkSize,
       overlap \in 0..(MaxChunkSize - 1) :
        ChunkTextCall(n, chunk_size, overlap)

SpecChunker == Init /\ [][NextChunker]_vars

(***************************************************************************)
(* The score conversion applied to distances, two at a time.               *)
(***************************************************************************)
\* the largest distance, in tenths
MaxDistance == 12

Distances == (-MaxDistance)..MaxDistance

\* 1 / (1 + abs(distance)) for one more distance
ScoreCall(distance) ==
    /\ LET all == Append(scored, [distance |-> distance,
                                  score    |-> Score(distance)])
       IN  scored' = IF Len(all) > 2 THEN Tail(all) ELSE all
    /\ UNCHANGED << service_vars, store_vars, api_vars, classifier_vars,
                    retrieval, chunked >>

NextScore == \E distance \in Distances : ScoreCall(distance)

SpecScore == Init /\ [][NextScore]_vars

(***************************************************************************)
(* What a turn has done, read from its trace and its call log.             *)
(***************************************************************************)
Ran(stage) == \E i \in 1..Len(trace) : trace[i] = stage

ReachedDone == pc = "RETURNED" /\ trace[Len(trace)] = "DONE"

ReformulationCalls ==
    SelectSeq(calls, LAMBDA c : c.cap = "llm" /\ c.prompt.kind = "reformulation")

GenerationCalls ==
    SelectSeq(calls, LAMBDA c : c.cap = "llm" /\ c.prompt.kind = "rag")

IndexCalls == SelectSeq(calls, LAMBDA c : c.cap = "index")

\* the questions of at most 3 whitespace tokens that contain a greeting phrase
GreetingInputs ==
    { q \in Questions :
        /\ Len(Split(q)) <= 3
        /\ \E phrase \in simple_phrases : Contains(Lower(q), phrase) }

\* the questions that contain one of the fixed pronouns
PronounQuestions ==
    { q \in Questions : \E pronoun \in pronouns : Contains(Lower(q), pronoun) }

\* the questions of at most 5 words
ShortQuestions == { q \in Questions : Len(Split(q)) <= 5 }

(***************************************************************************)
(* C1.  Conversation Memory is a bounded FIFO of capacity 5: its length    *)
(* never exceeds 5; an add on a window that is not full appends; an add on *)
(* a full window leaves exactly 5 exchanges, removes the oldest one and    *)
(* keeps the others in insertion order with the new one last.              *)
(***************************************************************************)
MemoryBoundedFifo ==
    /\ Len(conversation_history) <= 5
    /\ pc = "ADDED" =>
          LET new == [question |-> question, answer |-> answer]
              n   == Len(conversation_history)
          IN  /\ conversation_history[n] = new
              /\ IF Len(history_at_start) < 5
                 THEN /\ n = Len(history_at_start) + 1
                      /\ \A i \in 1..(n - 1) :
                            conversation_history[i] = history_at_start[i]
                 ELSE /\ n = 5
                      /\ \A i \in 1..4 :
                            conversation_history[i] = history_at_start[i + 1]

\* an add on a full window whose two oldest exchanges differ
MemoryEvictionWitness ==
    /\ pc = "ADDED"
    /\ Len(history_at_start) = 5
    /\ history_at_start[1] # history_at_start[2]
    /\ conversation_history[1] = history_at_start[2]

(***************************************************************************)
(* C2.  Greeting short-circuit: in a turn whose question has at most 3     *)
(* tokens and contains a greeting phrase no capability is called and no    *)
(* reformulation, retrieval or generation stage runs; the turn returns     *)
(* is_greeting = true, sources = [] and reformulated_query = none.  Any    *)
(* turn that ran one of those stages ran the greeting check first.         *)
(***************************************************************************)
GreetingShortCircuit ==
    /\ (pc # "IDLE" /\ question \in GreetingInputs) =>
          /\ calls = <<>>
          /\ ~Ran("REFORMULATE") /\ ~Ran("RETRIEVE") /\ ~Ran("GENERATE")
          /\ pc \in {"GREETING_CHECK", "GREETING_REPLY", "RETURNED"}
          /\ pc = "RETURNED" =>
                /\ result.is_greeting = TRUE
                /\ result.sources = <<>>
                /\ result.reformulated_query = None
    /\ (calls # <<>> \/ Ran("REFORMULATE") \/ Ran("RETRIEVE") \/ Ran("GENERATE")) =>
          /\ Len(trace) >= 3
          /\ trace[2] = "GREETING_CHECK"

\* a three-token greeting answered in a session that has memory
GreetingWitness ==
    /\ pc = "RETURNED"
    /\ question = "Merci beaucoup !"
    /\ use_history
    /\ conversation_history # <<>>
    /\ result.is_greeting = TRUE

(***************************************************************************)
(* C3.  Per-turn state machine: a turn that reaches DONE has run START,    *)
(* GREETING_CHECK, REFORMULATE, RETRIEVE, BUILD_PROMPT, GENERATE in this   *)
(* order, each once, then UPDATE_MEMORY when use_history, then DONE; a     *)
(* non-greeting turn that returns has reached DONE, and its last two       *)
(* capability calls are an index query that answered and then the one      *)
(* generation call.                                                        *)
(***************************************************************************)
FullPipeline(use) ==
    << "START", "GREETING_CHECK", "REFORMULATE", "RETRIEVE", "BUILD_PROMPT",
       "GENERATE" >> \o (IF use THEN << "UPDATE_MEMORY" >> ELSE <<>>) \o << "DONE" >>

PipelineOrder ==
    /\ (pc = "RETURNED" /\ Ran("DONE")) => trace = FullPipeline(use_history)
    /\ (pc = "RETURNED" /\ question \notin GreetingInputs) =>
          /\ ReachedDone
          /\ result.is_greeting = FALSE
          /\ Len(GenerationCalls) = 1
          /\ Len(calls) >= 2
          /\ calls[Len(calls)] = GenerationCalls[1]
          /\ calls[Len(calls) - 1].cap = "index"
          /\ calls[Len(calls) - 1].ok

\* a non-greeting turn with use_history has reached DONE
PipelineWitness ==
    /\ ReachedDone
    /\ use_history
    /\ question \notin GreetingInputs
    /\ Ran("UPDATE_MEMORY")

ReformulationSkipRule ==
    /\ Len(ReformulationCalls) <= 1
    /\ (Ran("REFORMULATE") /\ use_history) =>
          (Len(ReformulationCalls) = 1
             <=> /\ history_at_start # <<>>
                 /\ (question \in PronounQuestions \/ question \in ShortQuestions))
    /\ (Ran("REFORMULATE") /\ ReformulationCalls = <<>>) =>
          /\ search_query = question
          /\ ReachedDone => result.reformulated_query = None
    /\ (pc # "IDLE" /\ history_at_start = <<>>) =>
          /\ ReformulationCalls = <<>>
          /\ pc = "RETURNED" => result.reformulated_query = None

\* an explicit six-word question without pronoun, asked in a session that has
\* memory, went through without a reformulation call
SkipWitness ==
    /\ ReachedDone
    /\ use_history
    /\ history_at_start # <<>>
    /\ question = "Quand commence le semestre d'automne ?"
    /\ ReformulationCalls = <<>>

(***************************************************************************)
(* C6.  Reformulation failure is not fatal: after a failed reformulation   *)
(* call the turn goes on with the unmodified question, every index query   *)
(* is made with it, the turn can only be aborted by the index failing      *)
(* twice, and when it returns it has reached DONE with                     *)
(* reformulated_query = none.                                              *)
(***************************************************************************)
ReformulationFailureNotFatal ==
    (ReformulationCalls # <<>> /\ ~ReformulationCalls[1].ok) =>
       /\ pc \in {"RETRIEVE", "RETRIEVE_FALLBACK", "BUILD_PROMPT", "GENERATE",
                  "UPDATE_MEMORY", "RETURNED", "RAISED"}
       /\ search_query = question
       /\ \A i \in 1..Len(IndexCalls) : IndexCalls[i].query = question
       /\ pc = "RAISED" => (Len(IndexCalls) = 2 /\ ~IndexCalls[2].ok)
       /\ pc = "RETURNED" =>
             /\ ReachedDone
             /\ result.question = question
             /\ result.reformulated_query = None

\* a turn whose reformulation call failed has reached DONE
ReformulationFailureWitness ==
    /\ ReachedDone
    /\ ReformulationCalls # <<>>
    /\ ~ReformulationCalls[1].ok
    /\ Len(result.sources) > 0

(***************************************************************************)
(* C7.  Retrieval retry policy: a turn makes at most two index queries;    *)
(* the first asks for 2k results; a second one is made exactly when the    *)
(* first failed, and it carries no category filter and asks for exactly k  *)
(* results; when the second fails too, ask() raises: it returns no result, *)
(* holds no documents and makes no generation call.                        *)
(***************************************************************************)
RetrievalRetryPolicy ==
    LET ic == IndexCalls
    IN  /\ Len(ic) <= 2
        /\ Len(ic) >= 1 => ic[1].n_results = 2 * n_results
        /\ (Len(ic) >= 1 /\ ~ic[1].ok) =>
              (pc = "RETRIEVE_FALLBACK" /\ Len(ic) = 1) \/ Len(ic) = 2
        /\ Len(ic) = 2 =>
              /\ ~ic[1].ok
              /\ ic[2].where = None
              /\ ic[2].n_results = n_results
              /\ ic[2].query = ic[1].query
        /\ (Len(ic) = 2 /\ ~ic[2].ok) =>
              /\ pc = "RAISED"
              /\ raised # None
              /\ result = None
              /\ documents = <<>>
              /\ GenerationCalls = <<>>
              /\ ~Ran("BUILD_PROMPT") /\ ~Ran("GENERATE") /\ ~Ran("DONE")
        /\ pc = "RAISED" => (Len(ic) = 2 /\ ~ic[2].ok)

\* a category-filtered first query failed, and so did the filterless retry
RetrievalRetryWitness ==
    /\ pc = "RAISED"
    /\ Len(IndexCalls) = 2
    /\ IndexCalls[1].where = "emploi_temps"
    /\ IndexCalls[1].n_results = 4
    /\ IndexCalls[2].n_results = 2

(***************************************************************************)
(* C8.  Inference failure degrades gracefully: after a failed generation   *)
(* call nothing is raised; the answer is the error text followed by the    *)
(* failure reason; the turn reaches DONE and returns that answer with the  *)
(* sources of the retrieved documents.                                     *)
(***************************************************************************)
InferenceFailureDegrades ==
    (GenerationCalls # <<>> /\ ~GenerationCalls[1].ok) =>
       /\ pc \in {"UPDATE_MEMORY", "RETURNED"}
       /\ raised = None
       /\ answer = "Erreur lors de la generation : " \o GenerationCalls[1].content
       /\ pc = "RETURNED" =>
             /\ ReachedDone
             /\ result.answer = answer
             /\ result.is_greeting = FALSE
             /\ Len(result.sources) = Len(documents)
             /\ \A i \in 1..Len(documents) :
                   result.sources[i].source = documents[i].metadata.source

\* a turn whose generation call failed has returned, with two sources
InferenceFailureWitness ==
    /\ ReachedDone
    /\ ~GenerationCalls[1].ok
    /\ Contains(result.answer, "503 Service Unavailable")
    /\ Len(result.sources) = 2

(***************************************************************************)
(* C9.  Citation containment: the sources of a non-greeting response are   *)
(* the source, category and score of the documents handed to that turn's   *)
(* Prompt Builder, in the same order and of the same length, and each      *)
(* source labels a passage of that turn's prompt.                          *)
(***************************************************************************)
CitationContainment ==
    (pc = "RETURNED" /\ result.is_greeting = FALSE) =>
       /\ Len(result.sources) = Len(prompt_documents)
       /\ Len(result.sources) = Len(prompt.context)
       /\ \A i \in 1..Len(result.sources) :
             /\ result.sources[i].source = prompt_documents[i].metadata.source
             /\ result.sources[i].category = prompt_documents[i].metadata.category
             /\ result.sources[i].score = prompt_documents[i].score
             /\ result.sources[i].source = prompt.context[i].source

\* a response that cites two different sources
CitationWitness ==
    /\ pc = "RETURNED"
    /\ result.is_greeting = FALSE
    /\ Len(result.sources) = 2
    /\ result.sources[1].source # result.sources[2].source

(***************************************************************************)
(* C10.  UPDATE_MEMORY runs only when use_history is requested: a turn     *)
(* with use_history = false never changes the memory; a turn with          *)
(* use_history = true leaves it unchanged until it reaches DONE, and then  *)
(* the memory is the one at the start of the turn with exactly one         *)
(* exchange added, the original question and the returned answer (the      *)
(* oldest exchange dropped if the window was full).                        *)
(***************************************************************************)
MemoryUpdateOnlyWithHistory ==
    /\ (pc # "IDLE" /\ ~use_history) => conversation_history = history_at_start
    /\ (pc # "IDLE" /\ ~ReachedDone) => conversation_history = history_at_start
    /\ (ReachedDone /\ use_history) =>
          conversation_history =
             (IF Len(history_at_start) < 5
              THEN history_at_start
              ELSE Tail(history_at_start))
                \o << [question |-> result.question, answer |-> result.answer] >>
    /\ (ReachedDone /\ use_history) => result.question = question

\* a turn without use_history has reached DONE in a session that has memory
MemoryUntouchedWitness ==
    /\ ReachedDone
    /\ ~use_history
    /\ conversation_history # <<>>
    /\ conversation_history = history_at_start


(***************************************************************************)
(* C11: durable transcript fidelity.  After any sequence of add_message    *)
(* calls on an existing conversation id, load_conversation on that id      *)
(* returns a transcript whose message_count equals len(messages) equals    *)
(* the number of messages appended, with the messages in the order they    *)
(* were appended.                                                          *)
(***************************************************************************)
TranscriptFidelity ==
    \A conv_id \in DOMAIN store :
        LET transcript == LoadConversation(store, conv_id)
        IN  /\ transcript.metadata.message_count = Len(transcript.messages)
            /\ Len(transcript.messages) = Len(appended[conv_id])
            /\ \A i \in 1..Len(appended[conv_id]) :
                  transcript.messages[i] = appended[conv_id][i]

\* one conversation holds user, assistant, user in that order while another
\* conversation holds a single assistant message
TranscriptWitness ==
    \E a, b \in DOMAIN store :
        /\ a # b
        /\ store[a].metadata.message_count = 3
        /\ [i \in 1..3 |-> store[a].messages[i].role]
              = << "user", "assistant", "user" >>
        /\ store[b].metadata.message_count = 1
        /\ store[b].messages[1].role = "assistant"


(***************************************************************************)
(* C14: append is atomic per conversation id.  When two add_message calls  *)
(* on the same id run concurrently, each a load, an append and a save,     *)
(* both messages are in the stored transcript once both have returned and  *)
(* message_count is 2 higher than before: no interleaving loses an update. *)
(* With no caller inside add_message, every conversation holds one message *)
(* per call that returned on it.                                           *)
(***************************************************************************)
AppendAtomic ==
    (\A w \in Writers : writers[w].pc = "idle")
        => \A conv_id \in DOMAIN store :
              /\ store[conv_id].metadata.message_count = Len(appended[conv_id])
              /\ \A i \in 1..Len(appended[conv_id]) :
                    \E j \in 1..Len(store[conv_id].messages) :
                        store[conv_id].messages[j] = appended[conv_id][i]


(***************************************************************************)
(* Claims about the API process.                                           *)
(***************************************************************************)
\* role and content of the messages of a transcript, in order
RolesAndContents(messages) ==
    [i \in 1..Len(messages) |->
        [role |-> messages[i].role, content |-> messages[i].content]]

\* the messages of a sequence of answered turns: for each turn its question
\* as user, then its answer as assistant
TurnMessages(answered) ==
    [i \in 1..(2 * Len(answered)) |->
        IF i % 2 = 1
        THEN [role |-> "user", content |-> answered[(i + 1) \div 2].question]
        ELSE [role |-> "assistant", content |-> answered[i \div 2].answer]]

(***************************************************************************)
(* C12: a durable conversation is created on first use of a session id.    *)
(* After the first ask request carrying a session id s for which the       *)
(* store holds no conversation, the store holds a conversation whose id is *)
(* s, and it contains that turn's user message followed by its assistant   *)
(* message.                                                                *)
(***************************************************************************)
FirstUseCreatesConversation ==
    \A slot \in Slots :
        LET r == requests[slot]
        IN  (r.pc = "DONE" /\ r.first_use) =>
               /\ Exists(store, r.session_id)
               /\ \E i \in 1..(Len(store[r.session_id].messages) - 1) :
                     /\ store[r.session_id].messages[i].role = "user"
                     /\ store[r.session_id].messages[i].content = r.question
                     /\ store[r.session_id].messages[i + 1].role = "assistant"

(***************************************************************************)
(* C13: no partial turn is persisted.  If a turn in a session does not     *)
(* complete, the durable transcript of that session contains no message of *)
(* that turn; only turns that completed contribute messages, as a user     *)
(* message together with its assistant message.  Stated while no handler   *)
(* is inside a turn.                                                       *)
(***************************************************************************)
NoPartialTurn ==
    running = 0 =>
        \A conv_id \in DOMAIN store :
            RolesAndContents(store[conv_id].messages)
                = TurnMessages(Log(completed, conv_id))


\* what generate_prompt puts in a prompt from a memory it reads
HistoryContext(history) ==
    GeneratePrompt("", <<>>, TRUE, history).history_context

\* the exchanges the turns of session_id memorised since its memory was
\* last emptied
Own(session_id) ==
    LET all     == Log(produced, session_id)
        dropped == IF session_id \in DOMAIN cleared
                   THEN cleared[session_id] ELSE 0
    IN  SubSeq(all, dropped + 1, Len(all))

\* the last n elements of a sequence
Last(seq, n) == SubSeq(seq, IF Len(seq) > n THEN Len(seq) - n + 1 ELSE 1,
                       Len(seq))

\* the questions a turn was shown from memory: in the reformulation prompt
\* and in the history of the answer prompt
QuestionsRead(r) ==
    { r.calls[i].prompt.previous_question :
        i \in { j \in 1..Len(r.calls) : r.calls[j].cap = "llm" } }
    \cup { r.prompt.history_context[i].question :
             i \in 1..Len(r.prompt.history_context) }

(***************************************************************************)
(* C15: turns of the same session are serialized.  When two ask requests   *)
(* for the same session id are in flight, the second does not read         *)
(* Conversation Memory until the first has finished its memory update, so  *)
(* the second turn sees the first turn's exchange.  While a turn is        *)
(* between its reads and its memory update, no other turn of its service   *)
(* is, and the memory is still what the turn read.                         *)
(***************************************************************************)
TurnsSerialized ==
    \A slot \in Slots :
        LET r == requests[slot]
        IN  r.pc = "GENERATE" =>
               /\ \A other \in Slots \ {slot} :
                     requests[other].rag = r.rag
                         => requests[other].pc # "GENERATE"
               /\ r.use_history =>
                     r.prompt.history_context = HistoryContext(services[r.rag])

\* two requests of one session were in the process together; the first has
\* been answered and the second, before its memory update, has the first
\* one's exchange in its prompt
SerializedWitness ==
    /\ received = 2
    /\ requests[1].pc = "DONE"
    /\ requests[1].status = 200
    /\ requests[2].pc = "GENERATE"
    /\ requests[2].session_id = requests[1].session_id
    /\ requests[2].session_id # None
    /\ Len(requests[2].prompt.history_context) = 1
    /\ requests[2].prompt.history_context[1].question = requests[1].question

(***************************************************************************)
(* C16: session isolation.  Conversation Memory is never shared across     *)
(* sessions: for any two distinct session ids A and B and any interleaving *)
(* of their turns, a turn of A leaves B's memory unchanged, and B's        *)
(* reformulation and prompt read only exchanges produced by B's own turns. *)
(* The memory of every session is the window over the exchanges its own    *)
(* turns memorised, and what a turn is shown comes from its own session.   *)
(***************************************************************************)
SessionIsolation ==
    /\ \A session_id \in DOMAIN sessions :
          services[sessions[session_id]] = Last(Own(session_id), max_history)
    /\ \A slot \in Slots :
          LET r == requests[slot]
          IN  (r.pc = "GENERATE" /\ r.session_id # None) =>
                 QuestionsRead(r) \subseteq
                     { Own(r.session_id)[i].question :
                         i \in 1..Len(Own(r.session_id)) }

\* two sessions hold each its own exchange, about different questions
IsolationWitness ==
    \E a, b \in DOMAIN sessions :
        /\ a # b
        /\ Len(services[sessions[a]]) = 1
        /\ Len(services[sessions[b]]) = 1
        /\ services[sessions[a]][1].question
              # services[sessions[b]][1].question

(***************************************************************************)
(* C17: a request without a session id is served by the global service     *)
(* without history.  The global service's Conversation Memory stays empty, *)
(* so no exchange of an earlier sessionless request is ever read by the    *)
(* reformulator or put in the prompt of a later sessionless request.       *)
(***************************************************************************)
GlobalServiceWithoutHistory ==
    /\ rag_service # 0 => services[rag_service] = <<>>
    /\ \A slot \in Slots :
          LET r == requests[slot]
          IN  (r.pc = "GENERATE" /\ r.session_id = None) =>
                 QuestionsRead(r) = {}

(***************************************************************************)
(* C18: clear_history empties the Conversation Memory of the addressed     *)
(* session and nothing else.  Afterwards that session's memory is empty,   *)
(* the durable transcript of the same id is unchanged, and the memory of   *)
(* every other session is unchanged; for a session id that is not          *)
(* registered it reports not-found and changes nothing.                    *)
(***************************************************************************)
ClearHistoryStep(session_id) ==
    /\ route_calls' = route_calls + 1
    /\ response'.route = "clear_history"
    /\ response'.id = session_id

ClearHistoryScoped ==
    [][ \A session_id \in RouteIds :
          ClearHistoryStep(session_id) =>
             /\ store' = store
             /\ sessions' = sessions
             /\ rag_service' = rag_service
             /\ requests' = requests
             /\ IF session_id \in DOMAIN sessions
                THEN /\ response'.status = 200
                     /\ services'[sessions[session_id]] = <<>>
                     /\ \A ref \in 1..Len(services) :
                           ref # sessions[session_id]
                               => services'[ref] = services[ref]
                     /\ Len(services') = Len(services)
                ELSE /\ response'.status = 404
                     /\ services' = services ]_vars

\* a session that had an exchange in memory and has it in its transcript was
\* cleared: its memory is empty, its transcript is not, and another
\* session still has its memory
ClearHistoryWitness ==
    /\ route_calls > 0
    /\ response.route = "clear_history"
    /\ response.status = 200
    /\ services[sessions[response.id]] = <<>>
    /\ Len(Log(produced, response.id)) = 1
    /\ Len(store[response.id].messages) = 2
    /\ \E other \in DOMAIN sessions \ {response.id} :
          Len(services[sessions[other]]) = 1

(***************************************************************************)
(* C19: an explicit category override reaches the Retriever.  When an ask  *)
(* request supplies category_filter c, the vector index is queried with    *)
(* filter c and the Category Classifier is not consulted; the classifier   *)
(* is used only when no override is supplied.                              *)
(***************************************************************************)
CategoryOverrideReachesRetriever ==
    \A slot \in Slots :
        LET r == requests[slot]
            index_calls == SelectSeq(r.calls, LAMBDA c : c.cap = "index")
        IN  (r.pc = "GENERATE" /\ r.category_filter # None) =>
               index_calls[1].where = r.category_filter


(***************************************************************************)
(* C20: Category Classifier.  For every query the result is the category   *)
(* with the highest non-zero count of its keywords occurring as substrings *)
(* of the lower-cased query; among categories with equal highest count the *)
(* one declared first wins; when every count is zero the result is none.   *)
(* In particular a query containing "règle" and "absence" and no keyword   *)
(* of another category classifies to the regulations category.             *)
(***************************************************************************)
KeywordCount(query_lower, i) ==
    Cardinality({ k \in categories[i].keywords : Contains(query_lower, k) })

ClassifierPicksFirstHighest ==
    LET query_lower == Lower(QueryOf(classified.words))
        count == [i \in 1..Len(categories) |-> KeywordCount(query_lower, i)]
    IN  /\ IF \A i \in DOMAIN count : count[i] = 0
           THEN classified.category = None
           ELSE \E i \in DOMAIN count :
                   /\ classified.category = categories[i].category
                   /\ count[i] > 0
                   /\ \A j \in DOMAIN count : count[j] <= count[i]
                   /\ \A j \in 1..(i - 1) : count[j] < count[i]
        /\ ( /\ Contains(query_lower, "règle")
             /\ Contains(query_lower, "absence")
             /\ \A i \in DOMAIN count :
                   categories[i].category # "reglements" => count[i] = 0 )
               => classified.category = "reglements"

\* "inscription cours" was classified: one keyword of the schedule category
\* and one of the procedures category, and the first declared one is returned
ClassifierWitness ==
    /\ classified.words = <<4, 3>>
    /\ classified.category = "emploi_temps"


(***************************************************************************)
(* C21: score bounds.  For every distance d returned by the index, the     *)
(* relevance score 1/(1+|d|) lies in (0,1], equals 1 only for d = 0, and   *)
(* is strictly decreasing as |d| increases.                                *)
(***************************************************************************)
Magnitude(d) == IF d >= 0 THEN d ELSE 0 - d

\* the fraction a is greater than the fraction b (positive denominators)
Greater(a, b) == a.num * b.den > b.num * a.den

OverFetchAndTruncate ==
    LET r == retrieval
        k == r.n_results
    IN  r.query # None =>
           /\ r.calls[1].n_results = 2 * k
           /\ r.calls[1].where = CategoryOf[r.query]
           /\ r.behaviour = "answers" =>
                 /\ Len(r.documents) = IF Len(r.response) < k
                                       THEN Len(r.response) ELSE k
                 /\ \A i \in 1..Len(r.documents) :
                       /\ r.documents[i].text = r.response[i].document
                       /\ r.documents[i].metadata = r.response[i].metadata
           /\ Len(r.documents) <= k

\* the index sent two passages of the schedule category for k = 1 and the
\* first of them was returned
OverFetchWitness ==
    /\ retrieval.behaviour = "answers"
    /\ retrieval.n_results = 1
    /\ retrieval.calls[1].where = "emploi_temps"
    /\ Len(retrieval.response) = 2
    /\ Len(retrieval.documents) = 1
    /\ retrieval.documents[1].text = retrieval.response[1].document

(***************************************************************************)
(* C24: the RetrievalResult returned by retrieve_documents, and therefore  *)
(* the sources list of the response, is sorted by descending               *)
(* relevance_score for every response of the index (which ranks candidates *)
(* by ascending distance), with equal scores kept in the index's order.    *)
(***************************************************************************)
SortedByScore ==
    LET r == retrieval
    IN  /\ \A i, j \in 1..Len(r.documents) :
              i < j => ~Greater(r.documents[j].score, r.documents[i].score)
        /\ \A i, j \in 1..Len(r.sources) :
              i < j => ~Greater(r.sources[j].score, r.sources[i].score)
        /\ Len(r.sources) = Len(r.documents)
        /\ \A i \in 1..Len(r.documents) :
              /\ r.documents[i].text = r.response[i].document
              /\ r.sources[i].source = r.response[i].metadata.source

\* two passages came back, the second farther and with a strictly lower score
SortedWitness ==
    /\ Len(retrieval.documents) = 2
    /\ Greater(retrieval.documents[1].score, retrieval.documents[2].score)
    /\ retrieval.response[1].distance < retrieval.response[2].distance


(***************************************************************************)
(* C23: call budget.  In every turn the number of external capability      *)
(* invocations (reformulation model call, vector index query, generation   *)
(* model call) is at most 3, including turns in which the first index      *)
(* query fails and is retried.                                             *)
(***************************************************************************)
CallBudget == Len(calls) <= 3

(***************************************************************************)
(* C25: the Prompt Builder always receives the original user question,     *)
(* never the reformulated query.  In a turn where reformulation changed    *)
(* the query, the Retriever gets the reformulated text while the prompt's  *)
(* question and the question field of the response are the original text.  *)
(***************************************************************************)
PromptBuilt == pc \in {"GENERATE", "UPDATE_MEMORY"} \/ ReachedDone

OriginalQuestionInPrompt ==
    /\ PromptBuilt => prompt.query = question
    /\ ReachedDone => result.question = question
    /\ \A i \in 1..Len(IndexCalls) :
          /\ IndexCalls[i].query = search_query
          /\ (ReformulationCalls # <<>> /\ ReformulationCalls[1].ok)
                => IndexCalls[i].query = Strip(ReformulationCalls[1].content)

\* a turn whose query was rewritten has reached DONE
OriginalQuestionWitness ==
    /\ ReachedDone
    /\ search_query # question
    /\ ReformulationCalls # <<>>
    /\ IndexCalls[1].query = search_query
    /\ prompt.query = question
    /\ result.question = question
    /\ result.reformulated_query = search_query

(***************************************************************************)
(* C27: a turn that does not reach GENERATE leaves Conversation Memory     *)
(* exactly as it was.  This holds for every greeting turn and for every    *)
(* turn whose retrieval raises after the filterless retry, and in the      *)
(* latter case no generation call is made.                                 *)
(***************************************************************************)
MemoryUntouchedBeforeGenerate ==
    /\ (pc # "IDLE" /\ ~Ran("GENERATE"))
          => conversation_history = history_at_start
    /\ (pc = "RETURNED" /\ result.is_greeting)
          => /\ ~Ran("GENERATE")
             /\ conversation_history = history_at_start
    /\ pc = "RAISED"
          => /\ ~Ran("GENERATE")
             /\ GenerationCalls = <<>>
             /\ Len(IndexCalls) = 2
             /\ IndexCalls[2].where = None
             /\ conversation_history = history_at_start

\* in a session that has memory, a turn asking for history ended with the
\* exception of the retry
RetrievalRaisedWitness ==
    /\ pc = "RAISED"
    /\ use_history
    /\ conversation_history # <<>>
    /\ conversation_history = history_at_start
    /\ ~IndexCalls[2].ok

(***************************************************************************)
(* C29: with use_history = false a non-greeting turn makes no              *)
(* reformulation call even when Conversation Memory is non-empty and the   *)
(* question contains a pronoun: the Retriever gets the raw question,       *)
(* reformulated_query is none, and no exchange from memory is put in the   *)
(* prompt.                                                                 *)
(***************************************************************************)
NoReformulationWithoutHistory ==
    (pc # "IDLE" /\ ~use_history) =>
        /\ ReformulationCalls = <<>>
        /\ \A i \in 1..Len(IndexCalls) : IndexCalls[i].query = question
        /\ PromptBuilt => prompt.history_context = <<>>
        /\ ReachedDone => result.reformulated_query = None

\* a question with a pronoun was answered without history in a session
\* whose memory is not empty
NoReformulationWitness ==
    /\ ReachedDone
    /\ ~use_history
    /\ history_at_start # <<>>
    /\ question \in PronounQuestions
    /\ Len(IndexCalls) > 0
    /\ IndexCalls[1].query = question


(***************************************************************************)
(* C26: chunk_text on a text longer than chunk_size words returns windows  *)
(* of chunk_size words that start every (chunk_size - overlap) words and   *)
(* stops with the window that reaches the last word, adding no further     *)
(* trailing chunk: with chunk_size = 4 and overlap = 2 the 8-word text     *)
(* "A B C D E F G H" gives exactly the 3 chunks "A B C D", "C D E F",      *)
(* "E F G H".                                                              *)
(***************************************************************************)
ChunksAreWindows ==
    LET n     == chunked.words
        size  == chunked.chunk_size
        step  == chunked.chunk_size - chunked.overlap
        \* the first window that reaches the last word
        last  == CHOOSE k \in 1..n :
                    /\ (k - 1) * step + size >= n
                    /\ \A j \in 1..(k - 1) : (j - 1) * step + size < n
    IN  (size > 0 /\ n > size) =>
           /\ Len(chunked.chunks) = last
           /\ \A i \in 1..Len(chunked.chunks) :
                 LET first == (i - 1) * step + 1
                     end   == IF first + size - 1 < n THEN first + size - 1
                              ELSE n
                 IN  chunked.chunks[i] = Join(SubSeq(TextWords, first, end))
           /\ (n = 8 /\ size = 4 /\ chunked.overlap = 2) =>
                 chunked.chunks = << "A B C D", "C D E F", "E F G H" >>


(***************************************************************************)
(* C30: handling an ask request never adds to the durable store a          *)
(* conversation whose id differs from the request's session id.  After any *)
(* sequence of ask requests, every stored conversation was either created  *)
(* by an explicit create-conversation request or has the id of a session   *)
(* that asked.  The conversations of the initial store are the explicitly  *)
(* created ones.                                                           *)
(***************************************************************************)
OnlySessionConversations ==
    \A conv_id \in DOMAIN store :
        \/ conv_id \in RouteIds
        \/ \E slot \in Slots :
              /\ requests[slot].pc # "FREE"
              /\ requests[slot].session_id = conv_id
        \/ conv_id \in DOMAIN sessions


(***************************************************************************)
(* C28: when generation fails in a turn with use_history = true, the error *)
(* string returned as the answer is appended to Conversation Memory as     *)
(* that turn's exchange (and saved as the assistant message of the durable *)
(* transcript), so the next turn's reformulator and prompt builder read    *)
(* the error text as the previous answer.                                  *)
(***************************************************************************)
ErrorAnswers ==
    { "Erreur lors de la generation : " \o outcome.content :
        outcome \in { o \in GenerationOutcomes : ~o.ok } }

\* the replies of the greeting branch to each question
GreetingReplies == [q \in Questions |-> HandleGreeting(q)]

\* the generation call of a request, when it made one and the call raised
GenerationFailed(r) ==
    /\ r.calls # <<>>
    /\ r.calls[Len(r.calls)].cap = "llm"
    /\ r.calls[Len(r.calls)].prompt.kind = "rag"
    /\ ~r.calls[Len(r.calls)].ok

ErrorAnswerMemorised ==
    /\ \A slot \in Slots :
          LET r == requests[slot]
          IN  /\ (r.pc = "SAVE" /\ r.use_history /\ GenerationFailed(r)) =>
                    /\ r.result.answer \in ErrorAnswers
                    /\ services[r.rag] # <<>>
                    /\ services[r.rag][Len(services[r.rag])] =
                          [question |-> r.question, answer |-> r.result.answer]
              /\ (r.pc = "GENERATE" /\ r.use_history
                                    /\ services[r.rag] # <<>>) =>
                    LET previous == services[r.rag][Len(services[r.rag])]
                        shown    == r.prompt.history_context
                    IN  /\ shown # <<>>
                        /\ shown[Len(shown)].answer = Prefix(previous.answer, 100)
                        /\ \A i \in 1..Len(r.calls) :
                              r.calls[i].cap = "llm" =>
                                 r.calls[i].prompt.previous_answer
                                    = Prefix(previous.answer, 200)
    /\ \A session_id \in DOMAIN completed :
          \A i \in 1..Len(completed[session_id]) :
              /\ completed[session_id][i].answer \in ErrorAnswers
                     \/ completed[session_id][i].answer
                           \in GreetingReplies[completed[session_id][i].question]
              /\ \E j \in 1..Len(store[session_id].messages) :
                    /\ store[session_id].messages[j].role = "assistant"
                    /\ store[session_id].messages[j].content
                          = completed[session_id][i].answer

\* the turn after a failed generation: the error text is the answer in
\* memory and in the transcript, and the reformulation prompt and the prompt
\* of this turn carry it
ErrorAnswerWitness ==
    \E slot \in Slots :
        LET r == requests[slot]
        IN  /\ r.pc = "GENERATE"
            /\ r.session_id # None
            /\ Len(services[r.rag]) = 1
            /\ services[r.rag][1].answer \in ErrorAnswers
            /\ r.prompt.history_context[1].answer = services[r.rag][1].answer
            /\ r.calls[1].cap = "llm"
            /\ r.calls[1].prompt.previous_answer = services[r.rag][1].answer
            /\ \E j \in 1..Len(store[r.session_id].messages) :
                  /\ store[r.session_id].messages[j].role = "assistant"
                  /\ store[r.session_id].messages[j].content
                        = services[r.rag][1].answer

=============================================================================
